---- MODULE Spec2Model ----
(***************************************************************************)
(* Model of the tldfetch canvas store (src/src/store/useCanvasStore.ts),  *)
(* of the request assembly and the sends of the method block               *)
(* (src/src/components/Blocks/MethodBlock.tsx), of the debounced save and  *)
(* the start-up (indexedDB.ts, main.tsx), of the parameter input of the   *)
(* resource block (ResourceBlock.tsx), of the body-history modal           *)
(* (RequestBodyHistoryModal.tsx) and of the OpenAPI import.                *)
(*                                                                         *)
(* Strings whose characters matter (node values, variable values, URLs)    *)
(* are sequences of one-character strings; identifiers, header keys and    *)
(* tokens are TLA+ strings.  An optional list-valued field is a sequence   *)
(* of length 0 (undefined) or 1 (the list).                                *)
(***************************************************************************)
EXTENDS Integers, Sequences, FiniteSets, TLC

VARIABLES
    nodes,            \* CanvasState.nodes: sequence of node records
    edges,            \* CanvasState.edges: sequence of edge records
    activePathId,     \* CanvasState.activePathId (NullId for null)
    activePathNodes,  \* CanvasState.activePathNodes
    variables,        \* CanvasState.variables: name -> value
    nextId,           \* number of ids nanoid() has handed out
    nOps,             \* number of store operations performed
    lastOp,           \* name of the last store operation
    resolved,         \* result of a computeActivePathNodes call
    computedUrl,      \* result of a getComputedUrl call
    called,           \* has the pure function under study been applied
    pc,               \* position of the traceBackwards recursion
    mode,             \* which traceBackwards runs: "active" or "url"
    stack,            \* call stack of traceBackwards frames
    visitedNodes,     \* the visitedNodes set of the running search
    path,             \* pathNodeIds / path of the running search
    retval,           \* value returned by the last finished call
    traced,           \* per node id: times it passed the visited guard
    calls,            \* number of traceBackwards calls made
    bodyHistory,      \* CanvasState.bodyHistory
    response,         \* CanvasState.response
    history,          \* CanvasState.history
    block,            \* props of the method block that sends
    config,           \* axios config assembled by handleSend
    loading,          \* the block's loading flag
    sendPc,           \* position of handleSend: idle, awaiting, done
    request,          \* CanvasState.request (NullId for null)
    saveTimeout,      \* the handle debouncedSave keeps (0: undefined)
    timers,           \* the timers of debouncedSave that are pending
    heap,             \* the body field objects, by address
    refs,             \* owner (node or body-history item) -> addresses
    openapi,          \* the OpenAPI document handed to importOpenAPI
    imported,         \* the result of importOpenAPI
    stored,           \* the 'canvasState' record of the IndexedDB store
    saveFailed,       \* did the last write of saveState fail
    inflight,         \* the sends awaiting axios(config), one record each
    loadingBlocks,    \* ids of the mounted blocks whose loading flag is set
    completions,      \* the settled sends, in the order they settled
    bootPc,           \* position of the start-up: loadState, hydrate, render
    loadOutcome,      \* what openDatabase and the read request did
    rendered          \* has createRoot(...).render run

vars == <<nodes, edges, activePathId, activePathNodes, variables, nextId,
          nOps, lastOp, resolved, computedUrl, called, pc, mode, stack,
          visitedNodes, path, retval, traced, calls, bodyHistory, response,
          history, block, config, loading, sendPc, request, saveTimeout, timers,
          heap, refs, openapi, imported,
          stored, saveFailed, inflight, loadingBlocks, completions, bootPc,
          loadOutcome, rendered>>

storeVars == <<nodes, edges, activePathId, activePathNodes, variables,
               nextId, nOps, lastOp>>
callVars  == <<resolved, computedUrl, called>>
traceVars == <<pc, mode, stack, visitedNodes, path, retval, traced, calls>>
sendVars  == <<bodyHistory, response, history, block, config, loading,
               sendPc>>
diskVars   == <<stored, saveFailed>>
flightVars == <<inflight, loadingBlocks, completions>>
bootVars   == <<bootPc, loadOutcome, rendered>>
heapVars   == <<heap, refs>>
importVars == <<openapi, imported>>
restVars   == <<request, saveTimeout, timers, diskVars, flightVars,
                bootVars, heapVars,
                   importVars>>

(***************************************************************************)
(* Bounds                                                                  *)
(***************************************************************************)
MaxOps        == 3   \* store operations explored from the default state
MaxNewIds     == 2   \* ids nanoid() may hand out
MaxEdges      == 3   \* edge-list length of the enumerated graphs
MaxTraceEdges == 2   \* edge-list length of the graphs traced step by step
MaxSegLen     == 2   \* length of an enumerated URL segment value
MaxSegs       == 2   \* resource segments on an enumerated chain
MaxSchemeLen  == 1   \* length of the scheme of an enumerated base value
MaxRestLen    == 1   \* length of what follows '://' in such a base value
MaxTailLen    == 2   \* length of a resource value after such a base value
MaxTailSegs   == 1   \* resource segments after such a base value
MaxPathLen    == 3   \* length of a path key of an enumerated document
MaxPaths      == 2   \* paths of an enumerated document
MaxParamLen   == 4   \* length of an enumerated parameter segment value
MaxBodyFields == 2   \* body fields of an enumerated method block
MaxHeaders    == 2   \* header fields of an enumerated method block
MaxDepth      == 4   \* traceBackwards frames on the call stack
MaxSends      == 2   \* sends started by the method blocks of the canvas

(***************************************************************************)
(* Basic values                                                            *)
(***************************************************************************)
NullId    == "null"
Undefined == "undefined"
None      == <<>>
Some(x)   == <<x>>

NullUrl      == [isNull |-> TRUE,  value |-> <<>>]
UrlOf(s)     == [isNull |-> FALSE, value |-> s]

EmptyMap == [k \in {} |-> ""]
MapSet(m, k, v) == [x \in (DOMAIN m) \cup {k} |-> IF x = k THEN v ELSE m[x]]

SeqsUpTo(S, n) == UNION {[1..k -> S] : k \in 0..n}

RECURSIVE Reverse(_)
Reverse(s) == IF s = <<>> THEN <<>> ELSE Reverse(Tail(s)) \o <<Head(s)>>

\* \w of a JavaScript regular expression
WordChars ==
    {"a","b","c","d","e","f","g","h","i","j","k","l","m","n","o","p","q",
     "r","s","t","u","v","w","x","y","z","0","1","2","3","4","5","6","7",
     "8","9","_"}

(***************************************************************************)
(* Graph helpers                                                           *)
(***************************************************************************)
\* nodes.find((n) => n.id === nodeId) finds a node
HasNode(ns, nodeId) == \E i \in 1..Len(ns) : ns[i].id = nodeId

\* nodes.find((n) => n.id === nodeId): the first node with that id
FindNode(ns, nodeId) ==
    ns[CHOOSE i \in 1..Len(ns) :
          /\ ns[i].id = nodeId
          /\ \A j \in 1..(i - 1) : ns[j].id # nodeId]

\* IncomingEdges with a fault: only the first incoming edge is kept
IncomingEdges_FirstOnly(es, nodeId) ==
    LET all == SelectSeq(es, LAMBDA e : e.target = nodeId)
    IN  IF all = <<>> THEN <<>> ELSE <<Head(all)>>

\* edges.filter((e) => e.target === nodeId)
IncomingEdges(es, nodeId) == SelectSeq(es, LAMBDA e : e.target = nodeId)

(***************************************************************************)
(* computeActivePathNodes                                                  *)
(***************************************************************************)
RECURSIVE TraceBackwards(_, _, _, _), TraceIncoming(_, _, _, _, _)

\* traceBackwards without the pathNodeIds.shift() of a failed node
TraceBackwards_NoShift(nodeId, ns, es, st) ==
    IF nodeId \in st.visited
    THEN [st EXCEPT !.found = FALSE]
    ELSE LET s1 == [st EXCEPT !.visited = @ \cup {nodeId}]
         IN  IF ~HasNode(ns, nodeId)
             THEN [s1 EXCEPT !.found = FALSE]
             ELSE LET s2 == [s1 EXCEPT !.path = <<nodeId>> \o @]
                  IN  IF FindNode(ns, nodeId).type = "baseUrl"
                      THEN [s2 EXCEPT !.found = TRUE]
                      ELSE TraceIncoming(IncomingEdges(es, nodeId),
                                         1, ns, es, s2)

\* traceBackwards of computeActivePathNodes; st carries the closure's
\* visitedNodes and pathNodeIds, found is the returned boolean
TraceBackwards(nodeId, ns, es, st) ==
    IF nodeId \in st.visited
    THEN [st EXCEPT !.found = FALSE]
    ELSE LET s1 == [st EXCEPT !.visited = @ \cup {nodeId}]
         IN  IF ~HasNode(ns, nodeId)
             THEN [s1 EXCEPT !.found = FALSE]
             ELSE LET s2 == [s1 EXCEPT !.path = <<nodeId>> \o @]
                  IN  IF FindNode(ns, nodeId).type = "baseUrl"
                      THEN [s2 EXCEPT !.found = TRUE]
                      ELSE LET r == TraceIncoming(IncomingEdges(es, nodeId),
                                                  1, ns, es, s2)
                           IN  IF r.found
                               THEN r
                               ELSE [r EXCEPT !.path = Tail(@)]

\* for (const edge of incomingEdges) if (traceBackwards(edge.source)) ...
TraceIncoming(inc, i, ns, es, st) ==
    IF i > Len(inc)
    THEN [st EXCEPT !.found = FALSE]
    ELSE LET r == TraceBackwards(inc[i].source, ns, es, st)
         IN  IF r.found THEN r ELSE TraceIncoming(inc, i + 1, ns, es, r)

TraceStart == [visited |-> {}, path |-> <<>>, found |-> FALSE]

\* ComputeActivePathNodes with a fault: push instead of unshift
ComputeActivePathNodes_Push(apId, ns, es) ==
    IF apId = NullId THEN <<>>
    ELSE Reverse(TraceBackwards(apId, ns, es, TraceStart).path)

ComputeActivePathNodes(apId, ns, es) ==
    IF apId = NullId THEN <<>>
    ELSE TraceBackwards(apId, ns, es, TraceStart).path

(***************************************************************************)
(* Parameter substitution and URL composition                              *)
(***************************************************************************)
\* /\{(.+)\}/.test(value)
IsParam(value) ==
    \E i, j \in 1..Len(value) :
        value[i] = "{" /\ value[j] = "}" /\ j >= i + 2

\* first index >= i that does not hold a \w character (Len + 1 if none)
WordEnd(s, i) ==
    IF \E j \in i..Len(s) : s[j] \notin WordChars
    THEN CHOOSE j \in i..Len(s) :
            /\ s[j] \notin WordChars
            /\ \A k \in i..(j - 1) : s[k] \in WordChars
    ELSE Len(s) + 1

\* variables[key] || `{${key}}`
Lookup(vs, key) ==
    IF key \in DOMAIN vs /\ vs[key] # <<>>
    THEN vs[key]
    ELSE <<"{">> \o key \o <<"}">>

RECURSIVE ReplaceFrom(_, _, _)
\* value.replace(/\{(\w+)\}/g, (_, key) => ...) from index i on
ReplaceFrom(s, i, vs) ==
    IF i > Len(s) THEN <<>>
    ELSE LET j == WordEnd(s, i + 1)
         IN  IF s[i] = "{" /\ j > i + 1 /\ j <= Len(s) /\ s[j] = "}"
             THEN Lookup(vs, SubSeq(s, i + 1, j - 1)) \o ReplaceFrom(s, j + 1, vs)
             ELSE <<s[i]>> \o ReplaceFrom(s, i + 1, vs)

NotBrace(c) == c \notin {"{", "}"}

\* the resource branch with a fault: a value that is not a parameter loses
\* its braces
Substitute_DropsBraces(value, vs) ==
    IF IsParam(value) THEN ReplaceFrom(value, 1, vs)
    ELSE SelectSeq(value, NotBrace)

\* the resource branch of getComputedUrl's traceBackwards
Substitute(value, vs) ==
    IF IsParam(value) THEN ReplaceFrom(value, 1, vs) ELSE value

RECURSIVE Join(_)
\* path.join('/')
Join(segs) ==
    IF segs = <<>> THEN <<>>
    ELSE IF Len(segs) = 1 THEN segs[1]
    ELSE segs[1] \o <<"/">> \o Join(Tail(segs))

\* first index >= i that does not hold a slash (Len + 1 if none)
SlashEnd(s, i) ==
    IF \E j \in i..Len(s) : s[j] # "/"
    THEN CHOOSE j \in i..Len(s) :
            s[j] # "/" /\ \A k \in i..(j - 1) : s[k] = "/"
    ELSE Len(s) + 1

RECURSIVE CollapseFrom_AnyRun(_, _)
\* the collapse with the pattern /(\/)\/+/: a run of slashes becomes one
\* slash wherever it stands
CollapseFrom_AnyRun(s, i) ==
    IF i > Len(s) THEN <<>>
    ELSE IF i + 1 <= Len(s) /\ s[i] = "/" /\ s[i + 1] = "/"
         THEN <<"/">> \o CollapseFrom_AnyRun(s, SlashEnd(s, i + 1))
         ELSE <<s[i]>> \o CollapseFrom_AnyRun(s, i + 1)

RECURSIVE CollapseFrom(_, _)
\* .replace(/([^:]\/)\/+/g, '$1') from index i on
CollapseFrom(s, i) ==
    IF i > Len(s) THEN <<>>
    ELSE IF i + 2 <= Len(s) /\ s[i] # ":" /\ s[i + 1] = "/" /\ s[i + 2] = "/"
         THEN <<s[i], "/">> \o CollapseFrom(s, SlashEnd(s, i + 2))
         ELSE <<s[i]>> \o CollapseFrom(s, i + 1)

\* path.join('/').replace(/([^:]\/)\/+/g, '$1')
Compose(segs) == CollapseFrom(Join(segs), 1)

(***************************************************************************)
(* getComputedUrl                                                          *)
(***************************************************************************)
RECURSIVE UrlTraceBackwards(_, _, _, _, _), UrlTraceIncoming(_, _, _, _, _, _)

\* traceBackwards of getComputedUrl; st.path holds segment values
UrlTraceBackwards(nodeId, ns, es, vs, st) ==
    IF nodeId \in st.visited
    THEN [st EXCEPT !.found = FALSE]
    ELSE LET s1 == [st EXCEPT !.visited = @ \cup {nodeId}]
         IN  IF ~HasNode(ns, nodeId)
             THEN [s1 EXCEPT !.found = FALSE]
             ELSE LET node == FindNode(ns, nodeId)
                  IN  IF node.type = "baseUrl"
                      THEN [s1 EXCEPT !.path = <<node.value>> \o @,
                                      !.found = TRUE]
                      ELSE LET s2 == IF node.type = "resource"
                                     THEN [s1 EXCEPT !.path =
                                             <<Substitute(node.value, vs)>> \o @]
                                     ELSE s1
                           IN  UrlTraceIncoming(IncomingEdges(es, nodeId),
                                                1, ns, es, vs, s2)

UrlTraceIncoming(inc, i, ns, es, vs, st) ==
    IF i > Len(inc)
    THEN [st EXCEPT !.found = FALSE]
    ELSE LET r == UrlTraceBackwards(inc[i].source, ns, es, vs, st)
         IN  IF r.found THEN r
             ELSE UrlTraceIncoming(inc, i + 1, ns, es, vs, r)

\* GetComputedUrl with a fault: the result of the search is ignored
GetComputedUrl_IgnoreFound(ns, es, apId, vs) ==
    IF apId = NullId THEN NullUrl
    ELSE IF ~HasNode(ns, apId) THEN NullUrl
    ELSE LET r == UrlTraceBackwards(apId, ns, es, vs, TraceStart)
         IN  IF Len(r.path) = 0 THEN NullUrl ELSE UrlOf(Compose(r.path))

GetComputedUrl(ns, es, apId, vs) ==
    IF apId = NullId THEN NullUrl
    ELSE IF ~HasNode(ns, apId) THEN NullUrl
    ELSE LET r == UrlTraceBackwards(apId, ns, es, vs, TraceStart)
         IN  IF ~r.found \/ Len(r.path) = 0
             THEN NullUrl
             ELSE UrlOf(Compose(r.path))

(***************************************************************************)
(* Records                                                                 *)
(***************************************************************************)
\* ApiBlock restricted to the fields the store and the blocks read
MkNode(id, type, value, method) ==
    [id |-> id, type |-> type, value |-> value, method |-> method,
     bodyFields |-> None, headers |-> None, bearerToken |-> Undefined]

MkEdge(id, source, target) == [id |-> id, source |-> source, target |-> target]

EmptyVariables == [k \in {} |-> <<>>]

NoResponse == [isNull |-> TRUE, status |-> 0]
NoBlock    == [id |-> NullId, method |-> Undefined, bodyFields |-> None,
               headers |-> None, bearerToken |-> Undefined,
               computedUrl |-> NullUrl]
NoConfig   == [method |-> Undefined, url |-> <<>>, headers |-> EmptyMap,
               hasData |-> FALSE, data |-> EmptyMap]

\* values of the variables a specification does not use
StoreIdle ==
    /\ nodes = <<>> /\ edges = <<>> /\ activePathId = NullId
    /\ activePathNodes = <<>> /\ variables = EmptyVariables
    /\ nextId = 0 /\ nOps = 0 /\ lastOp = "none"
CallIdle  == resolved = <<>> /\ computedUrl = NullUrl /\ called = FALSE
TraceIdle ==
    /\ pc = "idle" /\ mode = "none" /\ stack = <<>> /\ visitedNodes = {}
    /\ path = <<>> /\ retval = FALSE /\ traced = [i \in {} |-> 0] /\ calls = 0
SendIdle  ==
    /\ bodyHistory = <<>> /\ response = NoResponse /\ history = <<>>
    /\ block = NoBlock /\ config = NoConfig /\ loading = FALSE
    /\ sendPc = "idle"
DiskIdle   == /\ saveTimeout = 0 /\ timers = {}
              /\ stored = None /\ saveFailed = FALSE
FlightIdle == inflight = {} /\ loadingBlocks = {} /\ completions = <<>>
\* the application after hydrateStore().then(render) has run
BootIdle   == bootPc = "rendered" /\ loadOutcome = "none" /\ rendered = TRUE
\* no body field object is tracked
NoRefs     == [o \in {} |-> <<>>]
HeapIdle   == heap = <<>> /\ refs = NoRefs
\* no document was imported
NoDoc      == [server |-> <<>>, paths |-> <<>>]
NoImport   == [done |-> FALSE, nodes |-> <<>>, edges |-> <<>>]
ImportIdle == openapi = NoDoc /\ imported = NoImport
RestIdle   == /\ request = NullId /\ DiskIdle /\ FlightIdle /\ BootIdle
              /\ HeapIdle /\ ImportIdle

(***************************************************************************)
(* Applying computeActivePathNodes and getComputedUrl to enumerated inputs *)
(***************************************************************************)
GraphIds   == {"n1", "n2", "n3"}
GraphOrder == <<"n1", "n2", "n3">>
GraphKinds == {"absent", "baseUrl", "resource", "method"}
GraphValue == [i \in GraphIds |->
                 CASE i = "n1" -> <<"a">> [] i = "n2" -> <<"b">> [] OTHER -> <<"c">>]

\* the node list of a kind assignment: one node per id that is not absent
GraphNodes(kind) ==
    LET all == [i \in 1..Len(GraphOrder) |->
                  MkNode(GraphOrder[i], kind[GraphOrder[i]],
                         GraphValue[GraphOrder[i]],
                         IF kind[GraphOrder[i]] = "method" THEN "GET" ELSE Undefined)]
    IN  SelectSeq(all, LAMBDA n : n.type # "absent")

\* the edge list of a sequence of <<source, target>> pairs
GraphEdges(pairs) ==
    [i \in 1..Len(pairs) |-> MkEdge("e" \o ToString(i), pairs[i][1], pairs[i][2])]

InitResolve ==
    /\ \E kind \in [GraphIds -> GraphKinds] : nodes = GraphNodes(kind)
    /\ \E pairs \in SeqsUpTo(GraphIds \X GraphIds, MaxEdges) :
          edges = GraphEdges(pairs)
    /\ activePathId \in {"n1", NullId}
    /\ activePathNodes = <<>> /\ variables = EmptyVariables
    /\ nextId = 0 /\ nOps = 0 /\ lastOp = "none"
    /\ CallIdle /\ TraceIdle /\ SendIdle /\ RestIdle

\* one call of computeActivePathNodes and one of getComputedUrl on the state
Resolve ==
    /\ ~called
    /\ resolved' = ComputeActivePathNodes(activePathId, nodes, edges)
    /\ computedUrl' = GetComputedUrl(nodes, edges, activePathId, variables)
    /\ called' = TRUE
    /\ UNCHANGED <<storeVars, traceVars, sendVars, restVars>>

NextResolve == Resolve

SpecResolve == InitResolve /\ [][NextResolve]_vars

(***************************************************************************)
(* Properties of the resolver                                              *)
(***************************************************************************)
RECURSIVE BackClosure(_, _, _)
\* the existing nodes reachable from the ids in S by following edges backward
BackClosure(S, ns, es) ==
    LET T == S \cup {es[i].source : i \in
                       {j \in 1..Len(es) :
                           es[j].target \in S /\ HasNode(ns, es[j].source)}}
    IN  IF T = S THEN S ELSE BackClosure(T, ns, es)

\* some BaseUrl node is reachable backward from t through existing nodes
BaseReachable(t, ns, es) ==
    /\ t # NullId
    /\ HasNode(ns, t)
    /\ \E x \in BackClosure({t}, ns, es) : FindNode(ns, x).type = "baseUrl"

\* the segment values of the BaseUrl and Resource nodes of a path, in order
SegmentsOf(p, ns, vs) ==
    LET on == SelectSeq(p, LAMBDA id :
                  FindNode(ns, id).type \in {"baseUrl", "resource"})
    IN  [i \in 1..Len(on) |->
            IF FindNode(ns, on[i]).type = "resource"
            THEN Substitute(FindNode(ns, on[i]).value, vs)
            ELSE FindNode(ns, on[i]).value]

ValidChain(p, t, ns, es) ==
    /\ FindNode(ns, p[1]).type = "baseUrl"
    /\ p[Len(p)] = t
    /\ \A i, j \in 1..Len(p) : i # j => p[i] # p[j]
    /\ \A i \in 1..(Len(p) - 1) :
          \E k \in 1..Len(es) : es[k].source = p[i] /\ es[k].target = p[i + 1]

\* C3: the URL returned by getComputedUrl is composed of exactly the values
\* of the BaseUrl and Resource nodes on the path computeActivePathNodes
\* resolves, in that order; abandoned branches contribute nothing.
C3_UrlFromResolvedPath ==
    (called /\ ~computedUrl.isNull) =>
        computedUrl.value = Compose(SegmentsOf(resolved, nodes, variables))

\* C4: when no BaseUrl node is reachable backward from the target (null or
\* unknown target, no incoming edges, only cycles), computeActivePathNodes
\* returns the empty sequence and getComputedUrl returns null.
C4_UnreachableIsEmpty ==
    (called /\ ~BaseReachable(activePathId, nodes, edges)) =>
        (resolved = <<>> /\ computedUrl.isNull)

C4_Witness ==
    /\ called
    /\ HasNode(nodes, activePathId)
    /\ ~BaseReachable(activePathId, nodes, edges)
    /\ Cardinality(BackClosure({activePathId}, nodes, edges)) >= 2
    /\ \E k \in 1..Len(edges) :
          edges[k].target = activePathId /\ edges[k].source = activePathId
    /\ resolved = <<>>
    /\ computedUrl.isNull

\* C5: when some BaseUrl node is reachable backward from an existing target,
\* computeActivePathNodes returns a non-empty path, whatever the edge order
\* and whatever cycles or dead ends are explored first.
C5_ReachableIsFound ==
    (called /\ BaseReachable(activePathId, nodes, edges)) => resolved # <<>>

C5_Witness ==
    /\ called
    /\ BaseReachable(activePathId, nodes, edges)
    /\ LET inc == IncomingEdges(edges, activePathId)
       IN  /\ Len(inc) >= 2
           /\ HasNode(nodes, inc[1].source)
           /\ ~BaseReachable(inc[1].source, nodes, edges)
    /\ resolved # <<>>

RECURSIVE BacktrackFrom(_, _, _, _), BacktrackIncoming(_, _, _, _, _)

\* the path a backtracking search finds from nodeId back to a BaseUrl node
\* (<<>> if none): incoming edges in list order, and only the nodes of
\* chain, those on the chain being built, are refused
BacktrackFrom(nodeId, ns, es, chain) ==
    IF nodeId \in chain \/ ~HasNode(ns, nodeId) THEN <<>>
    ELSE IF FindNode(ns, nodeId).type = "baseUrl" THEN <<nodeId>>
    ELSE LET r == BacktrackIncoming(IncomingEdges(es, nodeId), 1, ns, es,
                                    chain \cup {nodeId})
         IN  IF r = <<>> THEN <<>> ELSE r \o <<nodeId>>

BacktrackIncoming(inc, i, ns, es, chain) ==
    IF i > Len(inc) THEN <<>>
    ELSE LET r == BacktrackFrom(inc[i].source, ns, es, chain)
         IN  IF r # <<>> THEN r
             ELSE BacktrackIncoming(inc, i + 1, ns, es, chain)

\* C27: computeActivePathNodes returns the path of the backtracking search
\* that takes incoming edges in the same order and refuses only the nodes
\* on the chain being built.
C27_VisitedSetIsHarmless ==
    called =>
        resolved = IF activePathId = NullId THEN <<>>
                   ELSE BacktrackFrom(activePathId, nodes, edges, {})

\* a node that failed once is met again over another edge, off the chain,
\* before the path is found
C27_Witness ==
    /\ called
    /\ Len(resolved) >= 2
    /\ LET inc == IncomingEdges(edges, activePathId)
       IN  /\ Len(inc) >= 3
           /\ inc[1].source # activePathId
           /\ HasNode(nodes, inc[1].source)
           /\ ~BaseReachable(inc[1].source, nodes, edges)
           /\ inc[2].source = inc[1].source
           /\ resolved[Len(resolved) - 1] = inc[3].source

\* C6: a non-empty result of computeActivePathNodes starts at a BaseUrl node,
\* ends at the target, repeats no node id, and each consecutive pair is
\* joined by an edge of the edge list.
C6_ResolvedIsChain ==
    (called /\ resolved # <<>>) =>
        ValidChain(resolved, activePathId, nodes, edges)

C6_Witness ==
    /\ called
    /\ Len(resolved) = 3
    /\ Len(IncomingEdges(edges, activePathId)) >= 2

(***************************************************************************)
(* getComputedUrl on enumerated chains BaseUrl -> Resource* -> Method      *)
(***************************************************************************)
UrlChars    == {"/", ":", "a"}
ParamChars  == {"{", "}", "w", "-"}
ParamNames  == {<<"w">>, <<"w", "w">>}
ParamValues == {<<>>, <<"v">>}

ChainId(i) == "c" \o ToString(i)

ChainNodes(base, segs) ==
    <<MkNode(ChainId(0), "baseUrl", base, Undefined)>>
    \o [i \in 1..Len(segs) |-> MkNode(ChainId(i), "resource", segs[i], Undefined)]
    \o <<MkNode("cm", "method", <<>>, "GET")>>

ChainEdges(segs) ==
    [i \in 1..(Len(segs) + 1) |->
        MkEdge("e" \o ToString(i), ChainId(i - 1),
               IF i = Len(segs) + 1 THEN "cm" ELSE ChainId(i))]

\* every base value and every list of segment values over UrlChars
InitUrl ==
    /\ \E base \in SeqsUpTo(UrlChars, MaxSegLen) :
       \E segs \in SeqsUpTo(SeqsUpTo(UrlChars, MaxSegLen), MaxSegs) :
          /\ nodes = ChainNodes(base, segs)
          /\ edges = ChainEdges(segs)
    /\ activePathId = "cm"
    /\ activePathNodes = <<>> /\ variables = EmptyVariables
    /\ nextId = 0 /\ nOps = 0 /\ lastOp = "none"
    /\ CallIdle /\ TraceIdle /\ SendIdle /\ RestIdle

SpecUrl == InitUrl /\ [][NextResolve]_vars

SchemeChars == {"a", ":"}

\* every base value scheme://rest, the scheme without a slash, and every
\* list of segment values over UrlChars
InitScheme ==
    /\ \E scheme \in SeqsUpTo(SchemeChars, MaxSchemeLen) :
       \E rest \in SeqsUpTo(UrlChars, MaxRestLen) :
       \E segs \in SeqsUpTo(SeqsUpTo(UrlChars, MaxTailLen), MaxTailSegs) :
          /\ nodes = ChainNodes(scheme \o <<":", "/", "/">> \o rest, segs)
          /\ edges = ChainEdges(segs)
    /\ activePathId = "cm"
    /\ activePathNodes = <<>> /\ variables = EmptyVariables
    /\ nextId = 0 /\ nOps = 0 /\ lastOp = "none"
    /\ CallIdle /\ TraceIdle /\ SendIdle /\ RestIdle

SpecScheme == InitScheme /\ [][NextResolve]_vars

\* index of the colon of the first '://' of s
SeparatorAt(s) ==
    CHOOSE i \in 1..(Len(s) - 2) :
        /\ SubSeq(s, i, i + 2) = <<":", "/", "/">>
        /\ \A j \in 1..(i - 1) : SubSeq(s, j, j + 2) # <<":", "/", "/">>

\* C24: for a base value scheme://rest the computed URL has '://' where
\* the base value has it, whatever slashes the rest of the base value and
\* the resource values carry.
C24_SchemeSeparatorKept ==
    called =>
        LET base == FindNode(nodes, ChainId(0)).value
            p    == SeparatorAt(base)
        IN  /\ ~computedUrl.isNull
            /\ Len(computedUrl.value) >= p + 2
            /\ SubSeq(computedUrl.value, 1, p + 2) = SubSeq(base, 1, p + 2)

\* the separator ends the base value and the resource value is two slashes
C24_Witness ==
    /\ called
    /\ FindNode(nodes, ChainId(0)).value = <<"a", ":", "/", "/">>
    /\ Len(nodes) = 3
    /\ FindNode(nodes, ChainId(1)).value = <<"/", "/">>
    /\ computedUrl = UrlOf(<<"a", ":", "/", "/">>)

\* one resource value over ParamChars and every variable table setVariable
\* can have built over ParamNames
InitParam ==
    /\ \E seg \in SeqsUpTo(ParamChars, MaxParamLen) :
          /\ nodes = ChainNodes(<<"h">>, <<seg>>)
          /\ edges = ChainEdges(<<seg>>)
    /\ \E D \in SUBSET ParamNames : variables \in [D -> ParamValues]
    /\ activePathId = "cm"
    /\ activePathNodes = <<>>
    /\ nextId = 0 /\ nOps = 0 /\ lastOp = "none"
    /\ CallIdle /\ TraceIdle /\ SendIdle /\ RestIdle

SpecParam == InitParam /\ [][NextResolve]_vars

RECURSIVE PlaceholdersReplaced(_, _, _)
\* s from index i on, every {w} with w bound replaced by the value bound to
\* w, every other character kept
PlaceholdersReplaced(s, i, vs) ==
    IF i > Len(s) THEN <<>>
    ELSE LET j == WordEnd(s, i + 1)
         IN  IF /\ s[i] = "{" /\ j > i + 1 /\ j <= Len(s) /\ s[j] = "}"
                /\ SubSeq(s, i + 1, j - 1) \in DOMAIN vs
             THEN vs[SubSeq(s, i + 1, j - 1)]
                  \o PlaceholdersReplaced(s, j + 1, vs)
             ELSE <<s[i]>> \o PlaceholdersReplaced(s, i + 1, vs)

\* C7: in the computed URL every placeholder {w} of a resource value whose
\* name is bound in the variable table is replaced by the bound value,
\* whatever that value is, and every unbound placeholder is left as it is.
C7_PlaceholdersSubstituted ==
    called =>
        computedUrl = UrlOf(<<"h", "/">> \o
            PlaceholdersReplaced(FindNode(nodes, ChainId(1)).value, 1, variables))

\* a value without an opening brace that is followed, after at least one
\* character, by a closing brace
LiteralSegment(v) ==
    ~\E i, j \in 1..Len(v) : v[i] = "{" /\ v[j] = "}" /\ j - i >= 2

\* C25: a resource value that holds no {...} group enters the computed URL
\* as it is, whatever the variable table, and substituting in the result
\* once more gives the same value again.
C25_LiteralUnchanged ==
    called =>
        LET v == FindNode(nodes, ChainId(1)).value
        IN  LiteralSegment(v) =>
              /\ computedUrl = UrlOf(<<"h", "/">> \o v)
              /\ Substitute(v, variables) = v
              /\ Substitute(Substitute(v, variables), variables) = v

\* braces and a bound name, but no group
C25_Witness ==
    /\ called
    /\ FindNode(nodes, ChainId(1)).value = <<"}", "w", "{">>
    /\ <<"w">> \in DOMAIN variables /\ variables[<<"w">>] = <<"v">>
    /\ computedUrl = UrlOf(<<"h", "/", "}", "w", "{">>)

\* C8: the computed URL has no two consecutive slashes other than the two
\* that directly follow a colon.
C8_NoDoubleSlash ==
    (called /\ ~computedUrl.isNull) =>
        \A i \in 1..(Len(computedUrl.value) - 1) :
            (computedUrl.value[i] = "/" /\ computedUrl.value[i + 1] = "/")
                => (i > 1 /\ computedUrl.value[i - 1] = ":")

(***************************************************************************)
(* MethodBlock: request assembly and send                                  *)
(***************************************************************************)
HttpMethods == {"GET", "POST", "PUT", "DELETE", "PATCH"}

\* const method = data.method || 'GET'
BlockMethod(b) == IF b.method = Undefined THEN "GET" ELSE b.method

\* const bodyFields = data.bodyFields || []
BlockBodyFields(b) == IF b.bodyFields = None THEN <<>> ELSE b.bodyFields[1]

DefaultHeaders == <<[key |-> "Content-Type", value |-> "application/json"]>>

\* const headers = data.headers || [{ key: 'Content-Type', ... }]
BlockHeaders(b) == IF b.headers = None THEN DefaultHeaders ELSE b.headers[1]

\* const bearerToken = data.bearerToken || ''
BlockBearerToken(b) == IF b.bearerToken = Undefined THEN "" ELSE b.bearerToken

\* const hasBody = ['POST', 'PUT', 'PATCH'].includes(method)
HasBody(b) == BlockMethod(b) \in {"POST", "PUT", "PATCH"}

RECURSIVE FoldHeaders(_, _)
\* headers.reduce((acc, {key, value}) => { if (key && value) acc[key] = value })
FoldHeaders(hs, acc) ==
    IF hs = <<>> THEN acc
    ELSE FoldHeaders(Tail(hs),
                     IF Head(hs).key # "" /\ Head(hs).value # ""
                     THEN MapSet(acc, Head(hs).key, Head(hs).value)
                     ELSE acc)

\* the reduce of bodyFields with the first field of a key kept
FoldBody_FirstWins(fs, acc) ==
    LET keys == {fs[i].key : i \in 1..Len(fs)} \ {""}
        first(k) == CHOOSE i \in 1..Len(fs) :
                        fs[i].key = k /\ \A j \in 1..(i - 1) : fs[j].key # k
    IN  [k \in keys \cup DOMAIN acc |->
            IF k \in keys THEN fs[first(k)].value ELSE acc[k]]

RECURSIVE FoldBody(_, _)
\* bodyFields.reduce((acc, {key, value}) => { if (key) acc[key] = value })
FoldBody(fs, acc) ==
    IF fs = <<>> THEN acc
    ELSE FoldBody(Tail(fs),
                  IF Head(fs).key # ""
                  THEN MapSet(acc, Head(fs).key, Head(fs).value)
                  ELSE acc)

\* HeadersObj with a fault: the header list is folded over the
\* Authorization entry instead of before it
HeadersObj_BearerFirst(hs, token) ==
    IF token # ""
    THEN FoldHeaders(hs, MapSet(EmptyMap, "Authorization", "Bearer " \o token))
    ELSE FoldHeaders(hs, EmptyMap)

\* headersObj of handleSend, after the bearer token was applied
HeadersObj(hs, token) ==
    IF token # ""
    THEN MapSet(FoldHeaders(hs, EmptyMap), "Authorization", "Bearer " \o token)
    ELSE FoldHeaders(hs, EmptyMap)

\* if (hasBody && bodyFields.length > 0) config.data = bodyObj
AttachesData(b) == HasBody(b) /\ Len(BlockBodyFields(b)) > 0

\* the axios config handleSend builds
MkConfig(b) ==
    [method  |-> BlockMethod(b),
     url     |-> b.computedUrl.value,
     headers |-> HeadersObj(BlockHeaders(b), BlockBearerToken(b)),
     hasData |-> AttachesData(b),
     data    |-> IF AttachesData(b)
                 THEN FoldBody(BlockBodyFields(b), EmptyMap)
                 ELSE EmptyMap]

\* window.setTimeout: the handle of a new timer, one that no timer pending
\* at the call has (the smallest such, so that handles stay in a finite range)
NewTimer(pending) ==
    CHOOSE t \in 1..(Cardinality(pending) + 1) :
        t \notin pending /\ \A u \in 1..(t - 1) : u \in pending

\* debouncedSave() without its clearTimeout
DebouncedSave_NoClear ==
    LET t == NewTimer(timers)
    IN  timers' = timers \cup {t} /\ saveTimeout' = t

\* debouncedSave() made to do nothing once a write has failed
DebouncedSave_StopsAfterFailure ==
    IF saveFailed
    THEN UNCHANGED <<timers, saveTimeout>>
    ELSE LET kept == IF saveTimeout # 0 THEN timers \ {saveTimeout}
                     ELSE timers
             t    == NewTimer(timers)
         IN  timers' = kept \cup {t} /\ saveTimeout' = t

\* debouncedSave(): clearTimeout(saveTimeout) if a handle is kept, then
\* saveTimeout = setTimeout(...)
DebouncedSave ==
    LET kept == IF saveTimeout # 0 THEN timers \ {saveTimeout} ELSE timers
        t    == NewTimer(timers)
    IN  timers' = kept \cup {t} /\ saveTimeout' = t

\* nanoid(): the next id not handed out before
NanoId(n) == "id" \o ToString(n + 1)

\* addBodyHistory(method, url, bodyFields) on the bodyHistory list
AddBodyHistory(bh, id, method, url, bodyFields) ==
    IF Len(bodyFields) = 0 THEN bh
    ELSE LET item == [id |-> id, method |-> method, url |-> url,
                      bodyFields |-> bodyFields]
             all  == <<item>> \o bh
         IN  SubSeq(all, 1, IF Len(all) < 50 THEN Len(all) ELSE 50)

\* SetResponseHistory with a fault: the new item is put last, not first
SetResponseHistory_Append(h, id, status, url, method) ==
    IF url # <<>> /\ method # Undefined
    THEN LET item == [id |-> id, url |-> url, method |-> method,
                      status |-> status]
             all  == h \o <<item>>
         IN  SubSeq(all, 1, IF Len(all) < 10 THEN Len(all) ELSE 10)
    ELSE h

\* the history list after setResponse(response, url, method)
\* setResponse without its slice(0, 10)
SetResponseHistory_NoLimit(h, id, status, url, method) ==
    IF url # <<>> /\ method # Undefined
    THEN <<[id |-> id, url |-> url, method |-> method, status |-> status]>>
         \o h
    ELSE h

SetResponseHistory(h, id, status, url, method) ==
    IF url # <<>> /\ method # Undefined
    THEN LET item == [id |-> id, url |-> url, method |-> method,
                      status |-> status]
             all  == <<item>> \o h
         IN  SubSeq(all, 1, IF Len(all) < 10 THEN Len(all) ELSE 10)
    ELSE h

\* handleSend up to the await of axios(config)
HandleSend ==
    /\ sendPc = "idle"
    /\ ~block.computedUrl.isNull
    /\ block.computedUrl.value # <<>>
    /\ IF HasBody(block) /\ Len(BlockBodyFields(block)) > 0
       THEN /\ bodyHistory' = AddBodyHistory(bodyHistory, NanoId(nextId),
                                BlockMethod(block), block.computedUrl.value,
                                BlockBodyFields(block))
            /\ nextId' = nextId + 1
            /\ DebouncedSave
       ELSE UNCHANGED <<bodyHistory, nextId, saveTimeout, timers>>
    /\ loading' = TRUE
    /\ config' = MkConfig(block)
    /\ sendPc' = "awaiting"
    /\ UNCHANGED <<nodes, edges, activePathId, activePathNodes, variables,
                   nOps, lastOp, response, history, block>>
    /\ UNCHANGED <<callVars, traceVars, request, diskVars, flightVars,
                   bootVars, heapVars,
                   importVars>>

\* the statuses a server answers with, and 0 for "no response"
ServerStatuses == {200, 404, 500}

\* handleSend from the settlement of axios(config) on: status is the status
\* of the response or of error.response, 0 when there is no error.response
HandleSendSettle(status) ==
    /\ sendPc = "awaiting"
    /\ response' = [isNull |-> FALSE, status |-> status]
    /\ history' = SetResponseHistory(history, NanoId(nextId), status,
                                     config.url, config.method)
    /\ nextId' = nextId + 1
    /\ DebouncedSave
    /\ loading' = FALSE
    /\ sendPc' = "done"
    /\ UNCHANGED <<nodes, edges, activePathId, activePathNodes, variables,
                   nOps, lastOp, bodyHistory, block, config>>
    /\ UNCHANGED <<callVars, traceVars, request, diskVars, flightVars,
                   bootVars, heapVars,
                   importVars>>

BodyKeys     == {"", "k", "j"}
BodyValues   == {"", "v"}
HeaderKeys   == {"", "Authorization", "X"}
HeaderValues == {"", "h"}
Tokens       == {Undefined, "", "tok"}
BlockUrls    == {NullUrl, UrlOf(<<>>), UrlOf(<<"u">>)}

OptionalLists(S, n) == {None} \cup {Some(l) : l \in SeqsUpTo(S, n)}

\* the props a method block can have
Blocks ==
    [id          : {"m"},
     method      : HttpMethods \cup {Undefined},
     bodyFields  : OptionalLists([key : BodyKeys, value : BodyValues],
                                 MaxBodyFields),
     headers     : OptionalLists([key : HeaderKeys, value : HeaderValues],
                                 MaxHeaders),
     bearerToken : Tokens,
     computedUrl : BlockUrls]

InitSend ==
    /\ StoreIdle /\ CallIdle /\ TraceIdle /\ RestIdle
    /\ bodyHistory = <<>> /\ response = NoResponse /\ history = <<>>
    /\ block \in Blocks
    /\ config = NoConfig /\ loading = FALSE /\ sendPc = "idle"

NextSend ==
    \/ HandleSend
    \/ \E status \in ServerStatuses \cup {0} : HandleSendSettle(status)

SpecSend == InitSend /\ [][NextSend]_vars

\* C9: a body is attached only for POST, PUT or PATCH and only when some body
\* field has a non-empty key.
C9_BodyOnlyWithKeyedField ==
    (sendPc # "idle" /\ config.hasData) =>
        /\ config.method \in {"POST", "PUT", "PATCH"}
        /\ \E i \in 1..Len(BlockBodyFields(block)) :
              BlockBodyFields(block)[i].key # ""

\* C23: an attached body maps exactly the non-empty keys of the body field
\* list, each to the value of the last field that has the key, the empty
\* string included.
C23_BodyIsFold ==
    (sendPc # "idle" /\ config.hasData) =>
        LET fs == BlockBodyFields(block)
        IN  /\ DOMAIN config.data = {fs[i].key : i \in 1..Len(fs)} \ {""}
            /\ \A i \in 1..Len(fs) :
                  (/\ fs[i].key # ""
                   /\ \A j \in (i + 1)..Len(fs) : fs[j].key # fs[i].key)
                  => config.data[fs[i].key] = fs[i].value

\* a key given twice, the second time with an empty value
C23_Witness ==
    /\ sendPc # "idle" /\ config.hasData
    /\ BlockBodyFields(block) = <<[key |-> "k", value |-> "v"],
                                  [key |-> "k", value |-> ""]>>
    /\ config.data = ("k" :> "")

\* C10: with a non-empty bearer token the assembled headers map
\* Authorization to "Bearer <token>" whatever the header list holds, and no
\* assembled header has an empty key or an empty value.
C10_BearerOverrides ==
    sendPc # "idle" =>
        /\ BlockBearerToken(block) # "" =>
              /\ "Authorization" \in DOMAIN config.headers
              /\ config.headers["Authorization"]
                    = "Bearer " \o BlockBearerToken(block)
        /\ \A k \in DOMAIN config.headers :
              k # "" /\ config.headers[k] # ""

C10_Witness ==
    /\ sendPc # "idle"
    /\ BlockBearerToken(block) = "tok"
    /\ block.headers # None
    /\ Len(BlockHeaders(block)) = 2
    /\ BlockHeaders(block)[1].key = "" /\ BlockHeaders(block)[1].value = "h"
    /\ BlockHeaders(block)[2] = [key |-> "Authorization", value |-> "h"]
    /\ config.headers = ("Authorization" :> "Bearer tok")

(***************************************************************************)
(* traceBackwards, one call, loop iteration or return at a time            *)
(***************************************************************************)
Frame(nodeId) == [nodeId |-> nodeId, inc |-> <<>>, i |-> 0]

Top == stack[Len(stack)]

\* the early returns before traceBackwards(activePathId) is called
TraceStartCall ==
    /\ pc = "start"
    /\ IF \/ activePathId = NullId
          \/ (mode = "url" /\ ~HasNode(nodes, activePathId))
       THEN /\ pc' = "done"
            /\ UNCHANGED <<stack, calls>>
       ELSE /\ pc' = "call"
            /\ stack' = <<Frame(activePathId)>>
            /\ calls' = calls + 1
    /\ UNCHANGED <<mode, visitedNodes, path, retval, traced>>
    /\ UNCHANGED <<storeVars, callVars, sendVars, restVars>>

\* TraceEnter with a fault: the node is never added to visitedNodes
TraceEnter_NoVisitedAdd ==
    /\ pc = "call"
    /\ IF Top.nodeId \in visitedNodes
       THEN /\ retval' = FALSE /\ pc' = "return"
            /\ UNCHANGED <<stack, visitedNodes, path, traced>>
       ELSE /\ UNCHANGED visitedNodes
            /\ traced' = [traced EXCEPT ![Top.nodeId] = @ + 1]
            /\ IF ~HasNode(nodes, Top.nodeId)
               THEN /\ retval' = FALSE /\ pc' = "return"
                    /\ UNCHANGED <<stack, path>>
               ELSE LET node == FindNode(nodes, Top.nodeId)
                    IN  IF node.type = "baseUrl"
                        THEN /\ retval' = TRUE /\ pc' = "return"
                             /\ path' = IF mode = "active"
                                        THEN <<Top.nodeId>> \o path
                                        ELSE <<node.value>> \o path
                             /\ UNCHANGED stack
                        ELSE /\ path' =
                                  IF mode = "active"
                                  THEN <<Top.nodeId>> \o path
                                  ELSE IF node.type = "resource"
                                  THEN <<Substitute(node.value, variables)>> \o path
                                  ELSE path
                             /\ stack' = [stack EXCEPT ![Len(stack)] =
                                   [@ EXCEPT !.inc = IncomingEdges(edges, Top.nodeId),
                                             !.i = 1]]
                             /\ pc' = "loop"
                             /\ UNCHANGED retval
    /\ UNCHANGED <<mode, calls>>
    /\ UNCHANGED <<storeVars, callVars, sendVars, restVars>>

\* the body of traceBackwards from its entry to the incoming-edge loop
TraceEnter ==
    /\ pc = "call"
    /\ IF Top.nodeId \in visitedNodes
       THEN /\ retval' = FALSE /\ pc' = "return"
            /\ UNCHANGED <<stack, visitedNodes, path, traced>>
       ELSE /\ visitedNodes' = visitedNodes \cup {Top.nodeId}
            /\ traced' = [traced EXCEPT ![Top.nodeId] = @ + 1]
            /\ IF ~HasNode(nodes, Top.nodeId)
               THEN /\ retval' = FALSE /\ pc' = "return"
                    /\ UNCHANGED <<stack, path>>
               ELSE LET node == FindNode(nodes, Top.nodeId)
                    IN  IF node.type = "baseUrl"
                        THEN /\ retval' = TRUE /\ pc' = "return"
                             /\ path' = IF mode = "active"
                                        THEN <<Top.nodeId>> \o path
                                        ELSE <<node.value>> \o path
                             /\ UNCHANGED stack
                        ELSE /\ path' =
                                  IF mode = "active"
                                  THEN <<Top.nodeId>> \o path
                                  ELSE IF node.type = "resource"
                                  THEN <<Substitute(node.value, variables)>> \o path
                                  ELSE path
                             /\ stack' = [stack EXCEPT ![Len(stack)] =
                                   [@ EXCEPT !.inc = IncomingEdges(edges, Top.nodeId),
                                             !.i = 1]]
                             /\ pc' = "loop"
                             /\ UNCHANGED retval
    /\ UNCHANGED <<mode, calls>>
    /\ UNCHANGED <<storeVars, callVars, sendVars, restVars>>

\* one iteration of for (const edge of incomingEdges): the recursive call,
\* or the end of the loop (pathNodeIds.shift(); return false)
TraceLoop ==
    /\ pc = "loop"
    /\ IF Top.i <= Len(Top.inc)
       THEN /\ Len(stack) < MaxDepth
            /\ stack' = stack \o <<Frame(Top.inc[Top.i].source)>>
            /\ calls' = calls + 1
            /\ pc' = "call"
            /\ UNCHANGED <<path, retval>>
       ELSE /\ path' = IF mode = "active" THEN Tail(path) ELSE path
            /\ retval' = FALSE
            /\ pc' = "return"
            /\ UNCHANGED <<stack, calls>>
    /\ UNCHANGED <<mode, visitedNodes, traced>>
    /\ UNCHANGED <<storeVars, callVars, sendVars, restVars>>

\* TraceReturn with a fault: the loop goes on after a successful call
TraceReturn_KeepsLooking ==
    /\ pc = "return"
    /\ Len(stack) > 1
    /\ stack' = [SubSeq(stack, 1, Len(stack) - 1)
                    EXCEPT ![Len(stack) - 1] = [@ EXCEPT !.i = @ + 1]]
    /\ pc' = "loop"
    /\ UNCHANGED <<mode, visitedNodes, path, retval, traced, calls>>
    /\ UNCHANGED <<storeVars, callVars, sendVars, restVars>>

\* a call returns to its caller: if (traceBackwards(edge.source)) return true
TraceReturn ==
    /\ pc = "return"
    /\ Len(stack) > 1
    /\ IF retval
       THEN /\ stack' = SubSeq(stack, 1, Len(stack) - 1)
            /\ pc' = "return"
       ELSE /\ stack' = [SubSeq(stack, 1, Len(stack) - 1)
                           EXCEPT ![Len(stack) - 1] = [@ EXCEPT !.i = @ + 1]]
            /\ pc' = "loop"
    /\ UNCHANGED <<mode, visitedNodes, path, retval, traced, calls>>
    /\ UNCHANGED <<storeVars, callVars, sendVars, restVars>>

\* traceBackwards(activePathId) returns to computeActivePathNodes or to
\* getComputedUrl, which returns its result
TraceFinish ==
    /\ pc = "return"
    /\ Len(stack) = 1
    /\ stack' = <<>>
    /\ pc' = "done"
    /\ IF mode = "active"
       THEN /\ resolved' = path
            /\ UNCHANGED computedUrl
       ELSE /\ computedUrl' = IF ~retval \/ Len(path) = 0
                              THEN NullUrl ELSE UrlOf(Compose(path))
            /\ UNCHANGED resolved
    /\ called' = TRUE
    /\ UNCHANGED <<mode, visitedNodes, path, retval, traced, calls>>
    /\ UNCHANGED <<storeVars, sendVars, restVars>>

InitTrace ==
    /\ \E kind \in [GraphIds -> GraphKinds] : nodes = GraphNodes(kind)
    /\ \E pairs \in SeqsUpTo(GraphIds \X GraphIds, MaxTraceEdges) :
          edges = GraphEdges(pairs)
    /\ activePathId \in {"n1", NullId}
    /\ activePathNodes = <<>> /\ variables = EmptyVariables
    /\ nextId = 0 /\ nOps = 0 /\ lastOp = "none"
    /\ CallIdle /\ SendIdle /\ RestIdle
    /\ pc = "start" /\ mode \in {"active", "url"}
    /\ stack = <<>> /\ visitedNodes = {} /\ path = <<>> /\ retval = FALSE
    /\ traced = [i \in GraphIds |-> 0] /\ calls = 0

NextTrace ==
    \/ TraceStartCall
    \/ TraceEnter
    \/ TraceLoop
    \/ TraceReturn
    \/ TraceFinish

SpecTrace == InitTrace /\ [][NextTrace]_vars /\ WF_vars(NextTrace)

\* the stepwise search computes what the recursive definitions compute
TraceAgrees ==
    pc = "done" =>
        IF mode = "active"
        THEN resolved = ComputeActivePathNodes(activePathId, nodes, edges)
        ELSE computedUrl = GetComputedUrl(nodes, edges, activePathId, variables)

\* the call stack never needs more frames than MaxDepth
DepthSuffices == ~(pc = "loop" /\ Top.i <= Len(Top.inc) /\ Len(stack) >= MaxDepth)

\* C2: the backward search of computeActivePathNodes and of getComputedUrl
\* terminates on every graph, cyclic ones included, and no node id passes
\* the visited guard more than once.
C2_SearchTerminates ==
    /\ [](\A i \in GraphIds : traced[i] <= 1)
    /\ <>(pc = "done")

C2_Witness ==
    /\ pc = "done"
    /\ \E k \in 1..Len(edges) :
          edges[k].source = activePathId /\ edges[k].target = activePathId
    /\ calls > Cardinality(visitedNodes)
    /\ Cardinality(visitedNodes) >= 2

\* a BaseUrl node is backward reachable from s by a path that does not
\* enter a node of avoid
ReachesBaseAvoiding(s, avoid, ns, es) ==
    /\ s \notin avoid
    /\ BaseReachable(s, ns, SelectSeq(es, LAMBDA e :
                          e.source \notin avoid /\ e.target \notin avoid))

\* on path p every predecessor is the source of the earliest incoming edge
\* of its successor from which a BaseUrl can be reached without coming back
\* to the nodes the search is already in
PredecessorsAreEarliest(p, ns, es) ==
    \A k \in 1..(Len(p) - 1) :
        LET after == {p[j] : j \in (k + 1)..Len(p)}
            inc   == IncomingEdges(es, p[k + 1])
        IN  \E i \in 1..Len(inc) :
                /\ inc[i].source = p[k]
                /\ ReachesBaseAvoiding(inc[i].source, after, ns, es)
                /\ \A j \in 1..(i - 1) :
                      ~ReachesBaseAvoiding(inc[j].source, after, ns, es)

\* C16: incoming edges are tried in edge-list order and the search commits
\* to the first whose backward trace succeeds: each predecessor on the
\* resolved path is the source of the earliest such edge, and once a call
\* has returned true no further edge is tried.
C16_FirstSuccessfulEdge ==
    /\ []((pc = "done" /\ mode = "active") =>
            PredecessorsAreEarliest(resolved, nodes, edges))
    /\ [][(pc = "return" /\ retval) =>
            (pc' \in {"return", "done"} /\ calls' = calls)]_vars

C16_Witness ==
    /\ pc = "done"
    /\ mode = "active"
    /\ Len(resolved) = 2
    /\ LET inc == IncomingEdges(edges, activePathId)
       IN  /\ Len(inc) = 2
           /\ inc[1].source # inc[2].source
           /\ resolved[1] = inc[1].source
           /\ BaseReachable(inc[2].source, nodes, edges)
           /\ inc[2].source \notin visitedNodes

(***************************************************************************)
(* The canvas store                                                        *)
(***************************************************************************)
StrLocalhost == <<"h", "t", "t", "p", ":", "/", "/", "l", "o", "c", "a", "l", "h", "o", "s", "t", ":", "3", "0", "0", "0">>
StrHealth    == <<"h", "e", "a", "l", "t", "h">>
StrAuth      == <<"a", "u", "t", "h">>
StrLogin     == <<"l", "o", "g", "i", "n">>
StrUsers     == <<"u", "s", "e", "r", "s">>

\* createDefaultState(): the six starter nodes
DefaultNodes ==
    <<MkNode("default-base-url", "baseUrl", StrLocalhost, Undefined),
      MkNode("default-health-resource", "resource", StrHealth, Undefined),
      MkNode("default-health-method", "method", <<>>, "GET"),
      MkNode("default-auth-resource", "resource", StrAuth, Undefined),
      MkNode("default-login-resource", "resource", StrLogin, Undefined),
      [MkNode("default-login-method", "method", <<>>, "POST")
          EXCEPT !.bodyFields = Some(<<[key |-> "email", value |-> ""],
                                      [key |-> "password", value |-> ""]>>)]>>

\* createDefaultState(): the five starter edges
DefaultEdges ==
    <<MkEdge("edge-base-health", "default-base-url", "default-health-resource"),
      MkEdge("edge-health-get", "default-health-resource", "default-health-method"),
      MkEdge("edge-base-auth", "default-base-url", "default-auth-resource"),
      MkEdge("edge-auth-login", "default-auth-resource", "default-login-resource"),
      MkEdge("edge-login-post", "default-login-resource", "default-login-method")>>

NodeIds(ns) == {ns[i].id : i \in 1..Len(ns)}
EdgeIds(es) == {es[i].id : i \in 1..Len(es)}

\* the store after create(): ...defaultState
Init ==
    /\ nodes = DefaultNodes
    /\ edges = DefaultEdges
    /\ activePathId = NullId
    /\ activePathNodes = <<>>
    /\ variables = EmptyVariables
    /\ response = NoResponse
    /\ history = <<>>
    /\ bodyHistory = <<>>
    /\ nextId = 0 /\ nOps = 0 /\ lastOp = "none"
    /\ block = NoBlock /\ config = NoConfig /\ loading = FALSE
    /\ sendPc = "idle"
    /\ CallIdle /\ TraceIdle /\ RestIdle

\* bookkeeping of one store operation
Op(name) ==
    /\ nOps < MaxOps
    /\ nOps' = nOps + 1
    /\ lastOp' = name

NotStore == <<callVars, traceVars, block, config, loading, sendPc,
              diskVars, inflight, completions, bootVars, heapVars,
                   importVars>>

\* what the toolbar passes to addNode
AddChoices ==
    {<<"baseUrl", StrLocalhost, Undefined>>,
     <<"resource", StrUsers, Undefined>>,
     <<"method", <<>>, "GET">>}

AddNode(type, value, method) ==
    /\ Op("addNode")
    /\ DebouncedSave
    /\ nextId < MaxNewIds
    /\ nodes' = Append(nodes, MkNode(NanoId(nextId), type, value, method))
    /\ nextId' = nextId + 1
    /\ UNCHANGED <<edges, activePathId, activePathNodes, variables,
                   response, history>>
    /\ UNCHANGED <<request, bodyHistory, loadingBlocks>>
    /\ UNCHANGED NotStore

\* applyNodeChanges(changes, nodes) for one change: a removal drops the
\* node, a position, dimensions or select change keeps id, type and data
ApplyNodeChange(change, ns) ==
    IF change.type = "remove"
    THEN SelectSeq(ns, LAMBDA n : n.id # change.id)
    ELSE ns

\* applyEdgeChanges(changes, edges) for one change
ApplyEdgeChange(change, es) ==
    IF change.type = "remove"
    THEN SelectSeq(es, LAMBDA e : e.id # change.id)
    ELSE es

OnNodesChange(change) ==
    /\ Op("onNodesChange")
    /\ DebouncedSave
    /\ nodes' = ApplyNodeChange(change, nodes)
    /\ activePathNodes' = ComputeActivePathNodes(activePathId, nodes', edges)
    /\ loadingBlocks' = loadingBlocks \cap NodeIds(nodes')
    /\ UNCHANGED <<edges, activePathId, variables, nextId, response, history>>
    /\ UNCHANGED <<request, bodyHistory>>
    /\ UNCHANGED NotStore

OnEdgesChange(change) ==
    /\ Op("onEdgesChange")
    /\ DebouncedSave
    /\ edges' = ApplyEdgeChange(change, edges)
    /\ activePathNodes' = ComputeActivePathNodes(activePathId, nodes, edges')
    /\ UNCHANGED <<nodes, activePathId, variables, nextId, response, history>>
    /\ UNCHANGED <<request, bodyHistory, loadingBlocks>>
    /\ UNCHANGED NotStore

\* addEdge(edge, edges): an edge between the same two nodes is not added twice
AddEdge(edge, es) ==
    IF \E i \in 1..Len(es) :
          es[i].source = edge.source /\ es[i].target = edge.target
    THEN es
    ELSE Append(es, edge)

\* OnConnect with a fault: the projection is not recomputed
OnConnect_NoRecompute(source, target) ==
    /\ Op("onConnect")
    /\ DebouncedSave
    /\ nextId < MaxNewIds
    /\ edges' = AddEdge(MkEdge(NanoId(nextId), source, target), edges)
    /\ nextId' = nextId + 1
    /\ UNCHANGED activePathNodes
    /\ UNCHANGED <<nodes, activePathId, variables, response, history>>
    /\ UNCHANGED <<request, bodyHistory, loadingBlocks>>
    /\ UNCHANGED NotStore

OnConnect(source, target) ==
    /\ Op("onConnect")
    /\ DebouncedSave
    /\ nextId < MaxNewIds
    /\ edges' = AddEdge(MkEdge(NanoId(nextId), source, target), edges)
    /\ nextId' = nextId + 1
    /\ activePathNodes' = ComputeActivePathNodes(activePathId, nodes, edges')
    /\ UNCHANGED <<nodes, activePathId, variables, response, history>>
    /\ UNCHANGED <<request, bodyHistory, loadingBlocks>>
    /\ UNCHANGED NotStore

UpdateNodeValue(id, value) ==
    /\ Op("updateNodeValue")
    /\ DebouncedSave
    /\ nodes' = [i \in 1..Len(nodes) |->
                  IF nodes[i].id = id
                  THEN [nodes[i] EXCEPT !.value = value]
                  ELSE nodes[i]]
    /\ UNCHANGED <<edges, activePathId, activePathNodes, variables, nextId,
                   response, history>>
    /\ UNCHANGED <<request, bodyHistory, loadingBlocks>>
    /\ UNCHANGED NotStore

UpdateNodeBodyFields(id, bodyFields) ==
    /\ Op("updateNodeBodyFields")
    /\ DebouncedSave
    /\ nodes' = [i \in 1..Len(nodes) |->
                  IF nodes[i].id = id
                  THEN [nodes[i] EXCEPT !.bodyFields = Some(bodyFields)]
                  ELSE nodes[i]]
    /\ UNCHANGED <<edges, activePathId, activePathNodes, variables, nextId,
                   response, history>>
    /\ UNCHANGED <<request, bodyHistory, loadingBlocks>>
    /\ UNCHANGED NotStore

UpdateNodeHeaders(id, headers) ==
    /\ Op("updateNodeHeaders")
    /\ DebouncedSave
    /\ nodes' = [i \in 1..Len(nodes) |->
                  IF nodes[i].id = id
                  THEN [nodes[i] EXCEPT !.headers = Some(headers)]
                  ELSE nodes[i]]
    /\ UNCHANGED <<edges, activePathId, activePathNodes, variables, nextId,
                   response, history>>
    /\ UNCHANGED <<request, bodyHistory, loadingBlocks>>
    /\ UNCHANGED NotStore

\* edges.find(e => e.source === methodNodeId && the target is a request node)
HasRequestEdge(ns, es, methodNodeId) ==
    \E i \in 1..Len(es) :
        /\ es[i].source = methodNodeId
        /\ \E j \in 1..Len(ns) :
              ns[j].id = es[i].target /\ ns[j].type = "request"

EnsureRequestNode(methodNodeId) ==
    /\ ~HasRequestEdge(nodes, edges, methodNodeId)
    /\ HasNode(nodes, methodNodeId)
    /\ FindNode(nodes, methodNodeId).type = "method"
    /\ Op("ensureRequestNode")
    /\ DebouncedSave
    /\ nextId + 2 <= MaxNewIds
    /\ nodes' = Append(nodes,
          [MkNode(NanoId(nextId), "request", <<>>, Undefined)
              EXCEPT !.headers = Some(DefaultHeaders)])
    /\ edges' = Append(edges, MkEdge(NanoId(nextId + 1), methodNodeId, NanoId(nextId)))
    /\ nextId' = nextId + 2
    /\ UNCHANGED <<activePathId, activePathNodes, variables, response, history>>
    /\ UNCHANGED <<request, bodyHistory, loadingBlocks>>
    /\ UNCHANGED NotStore

SetActivePath(nodeId) ==
    /\ Op("setActivePath")
    /\ DebouncedSave
    /\ activePathId' = nodeId
    /\ activePathNodes' = ComputeActivePathNodes(nodeId, nodes, edges)
    /\ UNCHANGED <<nodes, edges, variables, nextId, response, history>>
    /\ UNCHANGED <<request, bodyHistory, loadingBlocks>>
    /\ UNCHANGED NotStore

SetVariable(key, value) ==
    /\ Op("setVariable")
    /\ DebouncedSave
    /\ variables' = [k \in (DOMAIN variables) \cup {key} |->
                        IF k = key THEN value ELSE variables[k]]
    /\ UNCHANGED <<nodes, edges, activePathId, activePathNodes, nextId,
                   response, history>>
    /\ UNCHANGED <<request, bodyHistory, loadingBlocks>>
    /\ UNCHANGED NotStore

\* setResponse(response, url, method); url = <<>> and method = Undefined
\* stand for the arguments left out
SetResponse(status, url, method) ==
    /\ Op("setResponse")
    /\ DebouncedSave
    /\ nextId < MaxNewIds
    /\ response' = [isNull |-> FALSE, status |-> status]
    /\ history' = SetResponseHistory(history, NanoId(nextId), status, url, method)
    /\ nextId' = IF url # <<>> /\ method # Undefined THEN nextId + 1 ELSE nextId
    /\ UNCHANGED <<nodes, edges, activePathId, activePathNodes, variables>>
    /\ UNCHANGED <<request, bodyHistory, loadingBlocks>>
    /\ UNCHANGED NotStore

SetRequest(req) ==
    /\ Op("setRequest")
    /\ DebouncedSave
    /\ request' = req
    /\ UNCHANGED <<nodes, edges, activePathId, activePathNodes, variables,
                   nextId, response, history>>
    /\ UNCHANGED <<bodyHistory, loadingBlocks>>
    /\ UNCHANGED NotStore

\* addBodyHistory(method, url, bodyFields) with a non-empty field list; with
\* an empty one it returns before set() and before debouncedSave()
AddBodyHistoryOp(method, url, bodyFields) ==
    /\ Len(bodyFields) > 0
    /\ Op("addBodyHistory")
    /\ DebouncedSave
    /\ nextId < MaxNewIds
    /\ bodyHistory' = AddBodyHistory(bodyHistory, NanoId(nextId), method, url,
                                     bodyFields)
    /\ nextId' = nextId + 1
    /\ UNCHANGED <<nodes, edges, activePathId, activePathNodes, variables,
                   response, history>>
    /\ UNCHANGED <<request, loadingBlocks>>
    /\ UNCHANGED NotStore

\* ResetToDefault with a fault: the variable table is kept
\* clearHistory()
ClearHistory ==
    /\ Op("clearHistory")
    /\ DebouncedSave
    /\ history' = <<>>
    /\ UNCHANGED <<nodes, edges, activePathId, activePathNodes, variables,
                   nextId, response>>
    /\ UNCHANGED <<request, bodyHistory, loadingBlocks>>
    /\ UNCHANGED NotStore

\* removeHistoryItem(id)
RemoveHistoryItem(id) ==
    /\ Op("removeHistoryItem")
    /\ DebouncedSave
    /\ LET keep(item) == item.id # id
       IN  history' = SelectSeq(history, keep)
    /\ UNCHANGED <<nodes, edges, activePathId, activePathNodes, variables,
                   nextId, response>>
    /\ UNCHANGED <<request, bodyHistory, loadingBlocks>>
    /\ UNCHANGED NotStore

ResetToDefault_KeepsVariables ==
    /\ Op("resetToDefault")
    /\ DebouncedSave
    /\ nodes' = DefaultNodes
    /\ edges' = DefaultEdges
    /\ activePathId' = NullId
    /\ activePathNodes' = <<>>
    /\ response' = NoResponse
    /\ history' = <<>>
    /\ bodyHistory' = <<>>
    /\ UNCHANGED variables
    /\ request' = NullId
    /\ loadingBlocks' = loadingBlocks \cap NodeIds(DefaultNodes)
    /\ UNCHANGED nextId
    /\ UNCHANGED NotStore

\* resetToDefault(): set(createDefaultState()); debouncedSave()
ResetToDefault ==
    /\ Op("resetToDefault")
    /\ DebouncedSave
    /\ nodes' = DefaultNodes
    /\ edges' = DefaultEdges
    /\ activePathId' = NullId
    /\ activePathNodes' = <<>>
    /\ response' = NoResponse
    /\ history' = <<>>
    /\ bodyHistory' = <<>>
    /\ variables' = EmptyVariables
    /\ request' = NullId
    /\ loadingBlocks' = loadingBlocks \cap NodeIds(DefaultNodes)
    /\ UNCHANGED nextId
    /\ UNCHANGED NotStore

EditValues   == {<<"x">>}
EditFields   == {<<[key |-> "k", value |-> "v"]>>}
VariableKeys == {<<"w">>}

KindIds(ns, kinds) == {ns[i].id : i \in {j \in 1..Len(ns) : ns[j].type \in kinds}}

\* blocks with a source handle (BaseUrl, Resource), with a target handle
\* (Resource, Method), with a value editor, with body and header editors
SourceIds(ns)   == KindIds(ns, {"baseUrl", "resource"})
TargetIds(ns)   == KindIds(ns, {"resource", "method"})
ValueIds(ns)    == KindIds(ns, {"baseUrl", "resource"})
MethodIds(ns)   == KindIds(ns, {"method"})

Next ==
    \/ \E c \in AddChoices : AddNode(c[1], c[2], c[3])
    \/ \E id \in NodeIds(nodes), t \in {"remove", "position"} :
          OnNodesChange([type |-> t, id |-> id])
    \/ \E id \in EdgeIds(edges), t \in {"remove", "select"} :
          OnEdgesChange([type |-> t, id |-> id])
    \/ \E s \in SourceIds(nodes), t \in TargetIds(nodes) : OnConnect(s, t)
    \/ \E id \in ValueIds(nodes), v \in EditValues : UpdateNodeValue(id, v)
    \/ \E id \in MethodIds(nodes), f \in EditFields : UpdateNodeBodyFields(id, f)
    \/ \E id \in MethodIds(nodes), h \in EditFields : UpdateNodeHeaders(id, h)
    \/ \E id \in MethodIds(nodes) : EnsureRequestNode(id)
    \/ \E id \in MethodIds(nodes) \cup {NullId} : SetActivePath(id)
    \/ \E k \in VariableKeys, v \in ParamValues : SetVariable(k, v)
    \/ \E st \in {200, 0} : SetResponse(st, <<"u">>, "GET")
    \/ SetResponse(200, <<>>, Undefined)
    \/ SetRequest("req")
    \/ \E f \in EditFields : AddBodyHistoryOp("POST", <<"u">>, f)
    \/ ResetToDefault

Spec == Init /\ [][Next]_vars

\* C1: after every store operation the stored activePathNodes is what
\* computeActivePathNodes returns for the current activePathId, nodes and
\* edges.
C1_ProjectionNeverStale ==
    activePathNodes = ComputeActivePathNodes(activePathId, nodes, edges)

C1_Witness ==
    /\ lastOp = "onConnect"
    /\ activePathId = "default-login-method"
    /\ activePathNodes = <<"default-base-url", "default-login-method">>

\* C15: resetToDefault leaves the store in the default starter state, with
\* nothing of the earlier nodes, edges, selection, request, response,
\* histories or variables left.
C15_ResetRestoresDefault ==
    lastOp = "resetToDefault" =>
        /\ nodes = DefaultNodes
        /\ edges = DefaultEdges
        /\ activePathId = NullId
        /\ activePathNodes = <<>>
        /\ request = NullId
        /\ response = NoResponse
        /\ history = <<>>
        /\ bodyHistory = <<>>
        /\ variables = EmptyVariables

C15_Witness ==
    /\ lastOp = "resetToDefault"
    /\ nOps >= 3
    /\ nextId >= 2
    /\ variables = EmptyVariables
    /\ nodes = DefaultNodes

\* C17: activePathId is null or the id of a Method node of the node list.
C17_ActiveIsMethodNode ==
    activePathId # NullId =>
        (HasNode(nodes, activePathId)
            /\ FindNode(nodes, activePathId).type = "method")

(***************************************************************************)
(* Sends of the method blocks of the canvas, several of them in flight     *)
(***************************************************************************)
\* the props of the mounted method block of node id and its computedUrl:
\* const computedUrl = isActive ? getComputedUrl() : null
BlockOf(id) ==
    LET n == FindNode(nodes, id)
    IN  [id |-> id, method |-> n.method, bodyFields |-> n.bodyFields,
         headers |-> n.headers, bearerToken |-> n.bearerToken,
         computedUrl |-> IF activePathId = id
                         THEN GetComputedUrl(nodes, edges, activePathId, variables)
                         ELSE NullUrl]

\* how axios(config) settles: fulfilled with a response, rejected with an
\* error that carries the server's response, rejected with no response
Outcomes ==
    {[fulfilled |-> TRUE,  hasResponse |-> TRUE,  status |-> 200],
     [fulfilled |-> FALSE, hasResponse |-> TRUE,  status |-> 404],
     [fulfilled |-> FALSE, hasResponse |-> TRUE,  status |-> 500],
     [fulfilled |-> FALSE, hasResponse |-> FALSE, status |-> 0]}

\* RecordedStatus with a fault: every rejection is recorded as status 0
RecordedStatus_ZeroOnError(o) == IF o.fulfilled THEN o.status ELSE 0

\* response.status in the try branch, error.response?.status || 0 in the
\* catch branch
RecordedStatus(o) ==
    IF o.fulfilled THEN o.status
    ELSE IF o.hasResponse /\ o.status # 0 THEN o.status ELSE 0

\* the number of sends started so far
Issued == Cardinality(inflight) + Len(completions)

\* handleSend of the method block of node id, up to the await of
\* axios(config); the Send button is disabled while the block is loading
BlockSend(id) ==
    /\ Issued < MaxSends
    /\ HasNode(nodes, id)
    /\ FindNode(nodes, id).type = "method"
    /\ id \notin loadingBlocks
    /\ ~BlockOf(id).computedUrl.isNull
    /\ BlockOf(id).computedUrl.value # <<>>
    /\ IF HasBody(BlockOf(id)) /\ Len(BlockBodyFields(BlockOf(id))) > 0
       THEN /\ bodyHistory' = AddBodyHistory(bodyHistory, NanoId(nextId),
                                BlockMethod(BlockOf(id)),
                                BlockOf(id).computedUrl.value,
                                BlockBodyFields(BlockOf(id)))
            /\ nextId' = nextId + 1
            /\ DebouncedSave
       ELSE UNCHANGED <<bodyHistory, nextId, saveTimeout, timers>>
    /\ loadingBlocks' = loadingBlocks \cup {id}
    /\ inflight' = inflight \cup
          {[seq |-> Issued + 1, block |-> id, config |-> MkConfig(BlockOf(id))]}
    /\ UNCHANGED <<nodes, edges, activePathId, activePathNodes, variables,
                   nOps, lastOp, response, history, request, completions>>
    /\ UNCHANGED <<callVars, traceVars, block, config, loading, sendPc,
                   diskVars, bootVars, heapVars,
                   importVars>>

\* BlockSettle with a fault: the finally branch is missing
BlockSettle_NoFinally(f, o) ==
    /\ f \in inflight
    /\ response' = [isNull |-> FALSE, status |-> RecordedStatus(o)]
    /\ history' = SetResponseHistory(history, NanoId(nextId), RecordedStatus(o),
                                     f.config.url, f.config.method)
    /\ nextId' = nextId + 1
    /\ DebouncedSave
    /\ UNCHANGED loadingBlocks
    /\ inflight' = inflight \ {f}
    /\ completions' = Append(completions,
          [seq |-> f.seq, block |-> f.block, url |-> f.config.url,
           method |-> f.config.method, outcome |-> o,
           status |-> RecordedStatus(o)])
    /\ UNCHANGED <<nodes, edges, activePathId, activePathNodes, variables,
                   nOps, lastOp, bodyHistory, request>>
    /\ UNCHANGED <<callVars, traceVars, block, config, loading, sendPc,
                   diskVars, bootVars, heapVars,
                   importVars>>

\* BlockSettle with a fault: the block that sent is made the active one
BlockSettle_Reselects(f, o) ==
    /\ f \in inflight
    /\ response' = [isNull |-> FALSE, status |-> RecordedStatus(o)]
    /\ history' = SetResponseHistory(history, NanoId(nextId), RecordedStatus(o),
                                     f.config.url, f.config.method)
    /\ nextId' = nextId + 1
    /\ DebouncedSave
    /\ loadingBlocks' = loadingBlocks \ {f.block}
    /\ inflight' = inflight \ {f}
    /\ completions' = Append(completions,
          [seq |-> f.seq, block |-> f.block, url |-> f.config.url,
           method |-> f.config.method, outcome |-> o,
           status |-> RecordedStatus(o)])
    /\ activePathId' = f.block
    /\ activePathNodes' = ComputeActivePathNodes(f.block, nodes, edges)
    /\ UNCHANGED <<nodes, edges, variables, nOps, lastOp, bodyHistory, request>>
    /\ UNCHANGED <<callVars, traceVars, block, config, loading, sendPc,
                   diskVars, bootVars, heapVars,
                   importVars>>

\* handleSend of the block that started send f, from the settlement o of
\* axios(config) on: setResponse in the try or in the catch branch, then
\* setLoading(false) in the finally branch.  The url and method are the ones
\* captured when the send started.
BlockSettle(f, o) ==
    /\ f \in inflight
    /\ response' = [isNull |-> FALSE, status |-> RecordedStatus(o)]
    /\ history' = SetResponseHistory(history, NanoId(nextId), RecordedStatus(o),
                                     f.config.url, f.config.method)
    /\ nextId' = nextId + 1
    /\ DebouncedSave
    /\ loadingBlocks' = loadingBlocks \ {f.block}
    /\ inflight' = inflight \ {f}
    /\ completions' = Append(completions,
          [seq |-> f.seq, block |-> f.block, url |-> f.config.url,
           method |-> f.config.method, outcome |-> o,
           status |-> RecordedStatus(o)])
    /\ UNCHANGED <<nodes, edges, activePathId, activePathNodes, variables,
                   nOps, lastOp, bodyHistory, request>>
    /\ UNCHANGED <<callVars, traceVars, block, config, loading, sendPc,
                   diskVars, bootVars, heapVars,
                   importVars>>

\* the user clicks method blocks and Send buttons; the transport settles
NextFlight ==
    \/ \E id \in MethodIds(nodes) \cup {NullId} : SetActivePath(id)
    \/ \E id \in MethodIds(nodes) : BlockSend(id)
    \/ \E f \in inflight, o \in Outcomes : BlockSettle(f, o)

\* every request handed to the transport is settled by it
SpecFlight ==
    /\ Init
    /\ [][NextFlight]_vars
    /\ \A k \in 1..MaxSends :
          WF_vars(\E f \in inflight, o \in Outcomes :
                      f.seq = k /\ BlockSettle(f, o))

LastCompletion == completions[Len(completions)]

\* C11: a send always ends by recording a response: the recorded status is
\* the server's status whenever the transport obtained a server response,
\* fulfilled or rejected, and 0 is recorded only when there was none.
C11_StatusIsServerStatus ==
    completions # <<>> =>
        /\ ~response.isNull
        /\ LastCompletion.outcome.hasResponse =>
              response.status = LastCompletion.outcome.status
        /\ response.status = 0 => ~LastCompletion.outcome.hasResponse

C11_Witness ==
    /\ completions # <<>>
    /\ ~LastCompletion.outcome.fulfilled
    /\ LastCompletion.outcome.hasResponse
    /\ response.status = 500

\* C12: results are applied in completion order: the displayed response is
\* that of the send that settled last and the history lists the settled
\* sends newest first, whatever the order in which they were started.
C12_CompletionOrder ==
    completions # <<>> =>
        /\ response.status = LastCompletion.status
        /\ Len(history) = (IF Len(completions) < 10 THEN Len(completions) ELSE 10)
        /\ \A i \in 1..Len(history) :
              LET c == completions[Len(completions) - i + 1]
              IN  /\ history[i].url = c.url
                  /\ history[i].method = c.method
                  /\ history[i].status = c.status

C12_Witness ==
    /\ Len(completions) = 2
    /\ completions[1].seq = 2
    /\ completions[2].seq = 1
    /\ completions[1].status # completions[2].status
    /\ response.status = completions[2].status
    /\ history[1].url = completions[2].url
    /\ history[2].url = completions[1].url
    /\ history[1].url # history[2].url

\* C19: every send started from a method block is eventually settled, and
\* the step that settles it sets the response, puts exactly one entry for it
\* at the front of history, for a failed request too, and leaves the block
\* not loading.
C19_SendSettles ==
    /\ [][\A f \in inflight :
            f \notin inflight' =>
              /\ ~response'.isNull
              /\ Len(history') =
                    (IF Len(history) < 10 THEN Len(history) + 1 ELSE 10)
              /\ history'[1].url = f.config.url
              /\ history'[1].method = f.config.method
              /\ history'[1].status = response'.status
              /\ Tail(history') = SubSeq(history, 1, Len(history') - 1)
              /\ f.block \notin loadingBlocks']_vars
    /\ \A k \in 1..MaxSends :
          (\E f \in inflight : f.seq = k)
             ~> (/\ \E i \in 1..Len(completions) : completions[i].seq = k
                 /\ \A f \in inflight : f.seq # k)

C19_Witness ==
    /\ Len(completions) = 2
    /\ ~LastCompletion.outcome.hasResponse
    /\ Len(history) = 2
    /\ history[1].status = 0
    /\ history[1].url = LastCompletion.url
    /\ LastCompletion.block \notin loadingBlocks

\* C20: the step that starts a send changes at most bodyHistory of the store
\* state, the step that applies its result changes only response and
\* history; nodes, edges, activePathId, activePathNodes and variables are
\* left as they are by both.
C20_SendFrame ==
    [][(inflight' # inflight) =>
          /\ UNCHANGED <<nodes, edges, activePathId, activePathNodes,
                         variables, request>>
          /\ (Cardinality(inflight') > Cardinality(inflight)) =>
                UNCHANGED <<response, history>>
          /\ (Cardinality(inflight') < Cardinality(inflight)) =>
                UNCHANGED bodyHistory]_vars

C20_Witness ==
    /\ completions # <<>>
    /\ activePathId # NullId
    /\ activePathId # LastCompletion.block
    /\ bodyHistory # <<>>
    /\ activePathNodes # <<>>

(***************************************************************************)
(* The response history                                                    *)
(***************************************************************************)
\* the history after k responses were recorded, the newest first
RecordedHistory(k) ==
    [i \in 1..k |-> [id |-> "h" \o ToString(k + 1 - i), url |-> <<"u">>,
                     method |-> "GET", status |-> 200]]

HistoryIds(h) == {h[i].id : i \in 1..Len(h)}

\* the default canvas with a history of up to ten recorded responses
InitHistory ==
    /\ nodes = DefaultNodes
    /\ edges = DefaultEdges
    /\ activePathId = NullId
    /\ activePathNodes = <<>>
    /\ variables = EmptyVariables
    /\ response = NoResponse
    /\ \E k \in 0..10 : history = RecordedHistory(k)
    /\ bodyHistory = <<>>
    /\ nextId = 0 /\ nOps = 0 /\ lastOp = "none"
    /\ block = NoBlock /\ config = NoConfig /\ loading = FALSE
    /\ sendPc = "idle"
    /\ CallIdle /\ TraceIdle /\ RestIdle

NextHistory ==
    \/ \E st \in {200, 0} : SetResponse(st, <<"u">>, "GET")
    \/ SetResponse(200, <<>>, Undefined)
    \/ \E id \in HistoryIds(history) \cup {"absent"} : RemoveHistoryItem(id)
    \/ ClearHistory
    \/ ResetToDefault

SpecHistory == InitHistory /\ [][NextHistory]_vars

\* C26: history never holds more than ten items, and no id twice; a
\* setResponse that is given a url and a method puts its item first, before
\* the first nine of the items there were, in their order; a
\* removeHistoryItem takes out the one item of some id and keeps the others
\* in their order, or changes nothing when no item has the id.
C26_HistoryBounded ==
    /\ [](/\ Len(history) <= 10
          /\ \A i, j \in 1..Len(history) :
                history[i].id = history[j].id => i = j)
    /\ [][(lastOp' = "setResponse" /\ nOps' # nOps /\ nextId' # nextId) =>
            /\ history' # <<>>
            /\ history'[1].id = NanoId(nextId)
            /\ history'[1].id \notin HistoryIds(history)
            /\ Tail(history') =
                  SubSeq(history, 1,
                         IF Len(history) < 9 THEN Len(history) ELSE 9)]_vars
    /\ [][(lastOp' = "removeHistoryItem" /\ nOps' # nOps) =>
            \/ \E i \in 1..Len(history) :
                  history' = SubSeq(history, 1, i - 1)
                             \o SubSeq(history, i + 1, Len(history))
            \/ history' = history]_vars
    /\ [][(lastOp' \in {"clearHistory", "resetToDefault"} /\ nOps' # nOps)
            => history' = <<>>]_vars

\* two responses were recorded on top of ten: the two oldest are gone
C26_Witness ==
    /\ Len(history) = 10
    /\ history[1].id = NanoId(1) /\ history[2].id = NanoId(0)
    /\ history[3].id = "h10" /\ history[10].id = "h3"

(***************************************************************************)
(* Auto-save: the debounce timer and the IndexedDB record                  *)
(***************************************************************************)
\* the object the timer callback of debouncedSave hands to saveState
Persistable ==
    [nodes |-> nodes, edges |-> edges, activePathId |-> activePathId,
     activePathNodes |-> activePathNodes, history |-> history,
     bodyHistory |-> bodyHistory, variables |-> variables]

\* the timer of debouncedSave fires: saveState(...) puts the current state
\* under 'canvasState' (ok) or fails, which is logged and nothing else
SaveFire(ok) ==
    /\ \E t \in timers : timers' = timers \ {t}
    /\ UNCHANGED saveTimeout
    /\ IF ok
       THEN stored' = Some(Persistable) /\ saveFailed' = FALSE
       ELSE saveFailed' = TRUE /\ UNCHANGED stored
    /\ UNCHANGED <<storeVars, callVars, traceVars, sendVars, request,
                   flightVars, bootVars, heapVars,
                   importVars>>

\* handleBearerTokenChange of the method block of node id:
\* useCanvasStore.setState({ nodes: ... }) and nothing else
HandleBearerTokenChange(id, newToken) ==
    /\ Op("handleBearerTokenChange")
    /\ nodes' = [i \in 1..Len(nodes) |->
                  IF nodes[i].id = id
                  THEN [nodes[i] EXCEPT !.bearerToken = newToken]
                  ELSE nodes[i]]
    /\ UNCHANGED <<edges, activePathId, activePathNodes, variables, nextId,
                   response, history>>
    /\ UNCHANGED <<request, bodyHistory, loadingBlocks, saveTimeout,
                   timers>>
    /\ UNCHANGED NotStore

\* edits of every part of the persistable state, and the timer
NextSave ==
    \/ \E id \in MethodIds(nodes) : HandleBearerTokenChange(id, "tok")
    \/ \E id \in MethodIds(nodes), f \in EditFields : UpdateNodeBodyFields(id, f)
    \/ \E id \in MethodIds(nodes), h \in EditFields : UpdateNodeHeaders(id, h)
    \/ \E id \in EdgeIds(edges) : OnEdgesChange([type |-> "remove", id |-> id])
    \/ \E id \in MethodIds(nodes) \cup {NullId} : SetActivePath(id)
    \/ \E k \in VariableKeys : SetVariable(k, <<"v">>)
    \/ SetResponse(200, <<"u">>, "GET")
    \/ \E f \in EditFields : AddBodyHistoryOp("POST", <<"u">>, f)
    \/ \E ok \in BOOLEAN : SaveFire(ok)

\* a timer that is set fires
SpecSave ==
    /\ Init
    /\ [][NextSave]_vars
    /\ WF_vars(\E ok \in BOOLEAN : SaveFire(ok))

\* C13: once changes have stopped, and unless the last write failed, the
\* record in storage comes to equal, and stays equal to, the persistable
\* state of the store, whichever part of it was changed last.
C13_AllWorkSaved ==
    <>[](lastOp = "none" \/ saveFailed \/ stored = Some(Persistable))

\* C21: saving is debounced.  At every moment at most one timer is pending;
\* an operation that schedules a save leaves exactly one timer pending, a
\* new one, the pending one being cancelled; a pending timer fires, and its
\* firing is the one write of the burst: no timer is pending after it, and
\* what it writes is the persistable state at the moment it fires.
C21_Debounced ==
    /\ [](Cardinality(timers) <= 1)
    /\ [][(saveTimeout' # saveTimeout) =>
            /\ saveTimeout' \notin timers
            /\ timers' = {saveTimeout'}]_vars
    /\ [][(Cardinality(timers') < Cardinality(timers)) =>
            /\ timers' = {}
            /\ UNCHANGED Persistable
            /\ saveFailed' \/ stored' = Some(Persistable)]_vars
    /\ [][(stored' # stored) =>
            Cardinality(timers') < Cardinality(timers)]_vars
    /\ (timers # {}) ~> (timers = {})

\* C22: a failed write is only logged.  The step in which a write fails
\* changes no field of the store and not the stored record; an operation
\* that schedules a save does so after a failed write as before it, and the
\* timer it sets fires.
C22_FailedWriteOnlyLogged ==
    /\ [][(saveFailed' /\ Cardinality(timers') < Cardinality(timers)) =>
            UNCHANGED <<nodes, edges, activePathId, activePathNodes,
                        variables, request, response, history, bodyHistory,
                        stored, saveTimeout>>]_vars
    /\ [][(saveFailed /\ nOps' # nOps
              /\ lastOp' # "handleBearerTokenChange") =>
            /\ timers' = {saveTimeout'}
            /\ saveTimeout' \notin timers]_vars
    /\ (saveFailed /\ timers # {}) ~> (timers = {})

\* a write failed, and an operation after it has set the timer again
C22_Witness ==
    /\ saveFailed /\ timers # {}
    /\ nOps >= 2 /\ lastOp # "handleBearerTokenChange"

\* the bearer token was set while a timer was pending, and the write that
\* followed holds it
C21_Witness ==
    /\ timers = {} /\ saveTimeout # 0
    /\ nOps >= 2 /\ lastOp = "handleBearerTokenChange"
    /\ stored = Some(Persistable)
    /\ \E i \in 1..Len(nodes) : nodes[i].bearerToken = "tok"

(***************************************************************************)
(* Start-up: loadState, hydrateStore, render                               *)
(***************************************************************************)
\* what openDatabase() and the read of 'canvasState' can do
LoadOutcomes == {"openFails", "transactionThrows", "requestError", "absent", "found"}

\* a history item and a variable table a saved record may hold
SavedItem == [id |-> "id1", url |-> <<"u">>, method |-> "GET", status |-> 200]
SavedVariables == [k \in {<<"w">>} |-> <<"v">>]

\* records debouncedSave can have written: the starter graph as it is, with
\* a bearer token, or with its last three nodes removed, and a first edge
\* removed, a method block clicked, a response received, a variable set
Snapshots ==
    {[nodes |-> ns, edges |-> es, activePathId |-> ap,
      activePathNodes |-> ComputeActivePathNodes(ap, ns, es),
      history |-> h, bodyHistory |-> <<>>, variables |-> vs] :
        ns \in {DefaultNodes,
                [DefaultNodes EXCEPT ![6].bearerToken = "tok"],
                SubSeq(DefaultNodes, 1, 3)},
        es \in {DefaultEdges, Tail(DefaultEdges)},
        ap \in {NullId, "default-health-method", "default-login-method"},
        h  \in {<<>>, <<SavedItem>>},
        vs \in {EmptyVariables, SavedVariables}}

\* the module is evaluated: the store is created with the default state and
\* hydrateStore() is called; the database holds a record or none
InitBoot ==
    /\ nodes = DefaultNodes
    /\ edges = DefaultEdges
    /\ activePathId = NullId
    /\ activePathNodes = <<>>
    /\ variables = EmptyVariables
    /\ response = NoResponse
    /\ history = <<>>
    /\ bodyHistory = <<>>
    /\ request = NullId
    /\ nextId = 0 /\ nOps = 0 /\ lastOp = "none"
    /\ block = NoBlock /\ config = NoConfig /\ loading = FALSE
    /\ sendPc = "idle"
    /\ CallIdle /\ TraceIdle /\ FlightIdle /\ HeapIdle /\ ImportIdle
    /\ saveTimeout = 0 /\ timers = {} /\ saveFailed = FALSE
    /\ stored \in {None} \cup {Some(r) : r \in Snapshots}
    /\ bootPc = "loadState" /\ loadOutcome = "none" /\ rendered = FALSE

\* loadState(): a failure of openDatabase() or a throw of db.transaction()
\* is caught and null is returned; the promise built around the read request
\* is returned without await, so its rejection is the rejection of loadState
LoadState(outcome) ==
    /\ bootPc = "loadState"
    /\ outcome = "found" => stored # None
    /\ outcome = "absent" => stored = None
    /\ loadOutcome' = outcome
    /\ bootPc' = "hydrateStore"
    /\ UNCHANGED rendered
    /\ UNCHANGED <<storeVars, callVars, traceVars, sendVars, request,
                   saveTimeout, timers, diskVars, flightVars, heapVars,
                   importVars>>

\* the promise loadState() returned is rejected
LoadRejected == loadOutcome = "requestError"

\* the value loadState() resolves with: request.result || null
LoadResult == IF loadOutcome = "found" THEN stored ELSE None

\* hydrateStore(): const savedState = await loadState();
\* if (savedState) useCanvasStore.setState(savedState)
HydrateStore ==
    /\ bootPc = "hydrateStore"
    /\ IF LoadRejected
       THEN /\ bootPc' = "rejected"
            /\ UNCHANGED <<nodes, edges, activePathId, activePathNodes,
                           history, bodyHistory, variables>>
       ELSE /\ bootPc' = "then"
            /\ IF LoadResult # None
               THEN /\ nodes' = LoadResult[1].nodes
                    /\ edges' = LoadResult[1].edges
                    /\ activePathId' = LoadResult[1].activePathId
                    /\ activePathNodes' = LoadResult[1].activePathNodes
                    /\ history' = LoadResult[1].history
                    /\ bodyHistory' = LoadResult[1].bodyHistory
                    /\ variables' = LoadResult[1].variables
               ELSE UNCHANGED <<nodes, edges, activePathId, activePathNodes,
                                history, bodyHistory, variables>>
    /\ UNCHANGED <<nextId, nOps, lastOp, response, block, config, loading,
                   sendPc, request, saveTimeout, timers, loadOutcome,
                   rendered>>
    /\ UNCHANGED <<callVars, traceVars, diskVars, flightVars, heapVars,
                   importVars>>

\* hydrateStore().then(() => createRoot(...).render(...))
Render ==
    /\ bootPc = "then"
    /\ rendered' = TRUE
    /\ bootPc' = "rendered"
    /\ UNCHANGED loadOutcome
    /\ UNCHANGED <<storeVars, callVars, traceVars, sendVars, request,
                   saveTimeout, timers, diskVars, flightVars, heapVars,
                   importVars>>

NextBoot ==
    \/ \E outcome \in LoadOutcomes : LoadState(outcome)
    \/ HydrateStore
    \/ Render

SpecBoot == InitBoot /\ [][NextBoot]_vars

\* the store holds the default starter state
IsDefaultState ==
    /\ nodes = DefaultNodes
    /\ edges = DefaultEdges
    /\ activePathId = NullId
    /\ activePathNodes = <<>>
    /\ request = NullId
    /\ response = NoResponse
    /\ history = <<>>
    /\ bodyHistory = <<>>
    /\ variables = EmptyVariables

\* C14: when the database cannot be opened or the read request errors, the
\* start-up still runs to its end: hydrateStore completes, the application
\* is rendered and the store holds the default starter state.
C14_ReadFailureIsSilent ==
    (/\ loadOutcome \in {"openFails", "requestError"}
     /\ bootPc \notin {"loadState", "hydrateStore", "then"})
        => (bootPc = "rendered" /\ rendered /\ IsDefaultState)

(***************************************************************************)
(* ResourceBlock: entering the value of a parameter                        *)
(***************************************************************************)
\* where value.match(/\{(.+)\}/) matches: from the leftmost "{" that has a
\* "}" at least two places to its right, up to the last "}" of the value
MatchStart(value) ==
    CHOOSE i \in 1..Len(value) :
        /\ value[i] = "{"
        /\ \E j \in (i + 2)..Len(value) : value[j] = "}"
        /\ \A k \in 1..(i - 1) :
              ~(value[k] = "{" /\ \E j \in (k + 2)..Len(value) : value[j] = "}")

MatchEnd(value) ==
    CHOOSE j \in 1..Len(value) :
        value[j] = "}" /\ \A k \in (j + 1)..Len(value) : value[k] # "}"

\* const paramName = isParam ? value.match(/\{(.+)\}/)?.[1] || '' : ''
ParamName(value) ==
    IF IsParam(value)
    THEN SubSeq(value, MatchStart(value) + 1, MatchEnd(value) - 1)
    ELSE <<>>

\* handleParamValueChange(newValue) of the resource block of node id; the
\* input it belongs to is shown for a parameter only
HandleParamValueChange(id, newValue) ==
    /\ HasNode(nodes, id)
    /\ IsParam(FindNode(nodes, id).value)
    /\ SetVariable(ParamName(FindNode(nodes, id).value), newValue)

EntryValues == {<<"v">>, <<"v", "v">>}

\* a resource value over ParamChars on the chain h -> value -> method, and
\* no variable set yet
InitEntry ==
    /\ \E seg \in SeqsUpTo(ParamChars, MaxParamLen) :
          /\ nodes = ChainNodes(<<"h">>, <<seg>>)
          /\ edges = ChainEdges(<<seg>>)
    /\ variables = EmptyVariables
    /\ activePathId = "cm"
    /\ activePathNodes = <<>>
    /\ nextId = 0 /\ nOps = 0 /\ lastOp = "none"
    /\ CallIdle /\ TraceIdle /\ SendIdle /\ RestIdle

\* the user enters a value, then the URL is computed
NextEntry ==
    \/ /\ ~called
       /\ \E v \in EntryValues : HandleParamValueChange(ChainId(1), v)
    \/ Resolve

SpecEntry == InitEntry /\ [][NextEntry]_vars

\* the resource value with its placeholder, as ResourceBlock sees it,
\* replaced by v
PlaceholderFilled(value, v) ==
    SubSeq(value, 1, MatchStart(value) - 1) \o v
        \o SubSeq(value, MatchEnd(value) + 1, Len(value))

\* C18: for a resource value the block shows as a parameter, the value
\* entered in the block is stored under the name getComputedUrl looks up:
\* after a non-empty value was entered the computed URL has the value in the
\* place of the placeholder.
C18_EnteredValueSubstituted ==
    (called /\ lastOp = "setVariable") =>
        computedUrl =
            UrlOf(<<"h", "/">> \o
                  PlaceholderFilled(FindNode(nodes, ChainId(1)).value,
                      variables[ParamName(FindNode(nodes, ChainId(1)).value)]))

(***************************************************************************)
(* Body fields as objects: the method block's editing and the body history *)
(***************************************************************************)
\* the field values an array of references denotes
Deref(h, rs) == [i \in 1..Len(rs) |-> h[rs[i]]]

\* nodes and bodyHistory as the objects of h and the arrays of r make them
NodesOver(ns, h, r) ==
    [i \in 1..Len(ns) |->
        IF ns[i].id \in DOMAIN r
        THEN [ns[i] EXCEPT !.bodyFields = Some(Deref(h, r[ns[i].id]))]
        ELSE ns[i]]

BodyHistoryOver(bh, h, r) ==
    [i \in 1..Len(bh) |-> [bh[i] EXCEPT !.bodyFields = Deref(h, r[bh[i].id])]]

BodyFrame ==
    /\ UNCHANGED <<edges, activePathId, activePathNodes, variables,
                   response, history>>
    /\ UNCHANGED <<request, loadingBlocks>>
    /\ UNCHANGED <<callVars, traceVars, block, config, loading, sendPc,
                   diskVars, inflight, completions, bootVars, importVars>>

\* updateNodeBodyFields(id, an array holding the objects rs)
UpdateNodeBodyFieldsRefs(id, h, rs) ==
    /\ DebouncedSave
    /\ heap' = h
    /\ refs' = MapSet(refs, id, rs)
    /\ nodes' = NodesOver(nodes, heap', refs')
    /\ bodyHistory' = BodyHistoryOver(bodyHistory, heap', refs')

\* handleFieldChange(index, field, newValue) of the method block of node id:
\* newFields = [...bodyFields]; newFields[index][field] = newValue;
\* updateNodeBodyFields(id, newFields)
HandleFieldChange(id, index, field, newValue) ==
    /\ id \in DOMAIN refs /\ index \in 1..Len(refs[id])
    /\ Op("handleFieldChange")
    /\ UpdateNodeBodyFieldsRefs(id,
          [heap EXCEPT ![refs[id][index]] = [@ EXCEPT ![field] = newValue]],
          refs[id])
    /\ UNCHANGED nextId
    /\ BodyFrame

\* addBodyField of the method block of node id
AddBodyField(id) ==
    /\ Op("addBodyField")
    /\ UpdateNodeBodyFieldsRefs(id,
          Append(heap, [key |-> "", value |-> ""]),
          Append(IF id \in DOMAIN refs THEN refs[id] ELSE <<>>,
                 Len(heap) + 1))
    /\ UNCHANGED nextId
    /\ BodyFrame

\* removeBodyField(index) of the method block of node id
RemoveBodyField(id, index) ==
    /\ id \in DOMAIN refs /\ index \in 1..Len(refs[id])
    /\ Op("removeBodyField")
    /\ UpdateNodeBodyFieldsRefs(id, heap,
          SubSeq(refs[id], 1, index - 1)
          \o SubSeq(refs[id], index + 1, Len(refs[id])))
    /\ UNCHANGED nextId
    /\ BodyFrame

\* addBodyHistory(method, url, bodyFields) as handleSend of the method block
\* of node id calls it: bodyFields.map(field => ({ ...field }))
AddBodyHistoryRefs(id, method, url) ==
    /\ id \in DOMAIN refs /\ Len(refs[id]) > 0
    /\ Op("addBodyHistory")
    /\ DebouncedSave
    /\ nextId < MaxNewIds
    /\ nextId' = nextId + 1
    /\ heap' = heap \o Deref(heap, refs[id])
    /\ refs' = MapSet(refs, NanoId(nextId),
                      [i \in 1..Len(refs[id]) |-> Len(heap) + i])
    /\ bodyHistory' = AddBodyHistory(bodyHistory, NanoId(nextId), method, url,
                                     Deref(heap', refs'[NanoId(nextId)]))
    /\ UNCHANGED nodes
    /\ BodyFrame

\* the history modal of the method block of node id, entry k chosen:
\* handleSelectBody(item.bodyFields) -> onSelectBody -> updateNodeBodyFields
SelectBody(id, k) ==
    /\ k \in 1..Len(bodyHistory)
    /\ Op("selectBody")
    /\ UpdateNodeBodyFieldsRefs(id, heap, refs[bodyHistory[k].id])
    /\ UNCHANGED nextId
    /\ BodyFrame

\* removeBodyHistoryItem(id)
RemoveBodyHistoryItem(id) ==
    /\ Op("removeBodyHistoryItem")
    /\ DebouncedSave
    /\ LET keep(item) == item.id # id
       IN  bodyHistory' = SelectSeq(bodyHistory, keep)
    /\ UNCHANGED <<nodes, nextId, heapVars>>
    /\ BodyFrame

LoginMethod == "default-login-method"

\* the store after create(), the two default body fields as objects
InitBody ==
    /\ nodes = DefaultNodes
    /\ edges = DefaultEdges
    /\ activePathId = NullId
    /\ activePathNodes = <<>>
    /\ variables = EmptyVariables
    /\ response = NoResponse
    /\ history = <<>>
    /\ bodyHistory = <<>>
    /\ nextId = 0 /\ nOps = 0 /\ lastOp = "none"
    /\ block = NoBlock /\ config = NoConfig /\ loading = FALSE
    /\ sendPc = "idle"
    /\ CallIdle /\ TraceIdle
    /\ request = NullId /\ DiskIdle /\ FlightIdle /\ BootIdle /\ ImportIdle
    /\ heap = <<[key |-> "email", value |-> ""],
                [key |-> "password", value |-> ""]>>
    /\ refs = (LoginMethod :> <<1, 2>>)

NextBody ==
    \/ \E i \in 1..MaxBodyFields, f \in {"key", "value"} :
          HandleFieldChange(LoginMethod, i, f, "x")
    \/ AddBodyField(LoginMethod)
    \/ \E i \in 1..MaxBodyFields : RemoveBodyField(LoginMethod, i)
    \/ AddBodyHistoryRefs(LoginMethod, "POST", <<"u">>)
    \/ \E k \in 1..MaxNewIds : SelectBody(LoginMethod, k)
    \/ \E n \in 0..(MaxNewIds - 1) : RemoveBodyHistoryItem(NanoId(n))

SpecBody == InitBody /\ [][NextBody]_vars

\* C28: a recorded body-history entry keeps the keys and values of its
\* bodyFields for as long as it is in the body history, whatever is done to
\* the method node's body fields, whichever entry is selected from the
\* history modal and edited, and whatever is sent again.
C28_EntryIsSnapshot ==
    [][\A i \in 1..Len(bodyHistory), j \in 1..Len(bodyHistory') :
          bodyHistory'[j].id = bodyHistory[i].id
             => bodyHistory'[j].bodyFields = bodyHistory[i].bodyFields]_vars

(***************************************************************************)
(* OpenAPI import                                                          *)
(***************************************************************************)
RECURSIVE SplitFrom(_, _, _)
\* path.split('/') from index i on, cur being the piece read so far
SplitFrom(s, i, cur) ==
    IF i > Len(s) THEN <<cur>>
    ELSE IF s[i] = "/" THEN <<cur>> \o SplitFrom(s, i + 1, <<>>)
    ELSE SplitFrom(s, i + 1, Append(cur, s[i]))

NonEmptySegment(segment) == Len(segment) > 0

\* parsePathSegments(path)
ParsePathSegments(p) == SelectSeq(SplitFrom(p, 1, <<>>), NonEmptySegment)

\* the PathNode of the root; a tree is the sequence of its PathNodes in the
\* order they were created, each with its segments from the root
RootTree == <<[segments |-> <<>>, methods |-> <<>>]>>

HasPathNode(t, segs) == \E i \in 1..Len(t) : t[i].segments = segs

RECURSIVE WalkSegments(_, _, _)
\* the loop over segments of buildPathTree: a child that is not there yet
\* is created
WalkSegments(t, segs, k) ==
    IF k > Len(segs) THEN t
    ELSE WalkSegments(
            IF HasPathNode(t, SubSeq(segs, 1, k)) THEN t
            ELSE Append(t, [segments |-> SubSeq(segs, 1, k),
                            methods |-> <<>>]),
            segs, k + 1)

\* current.methods.push(...) for the methods of the path item, in the
\* order get, post, put, delete, patch
PushMethods(t, segs, methods) ==
    [i \in 1..Len(t) |->
        IF t[i].segments = segs
        THEN [t[i] EXCEPT !.methods = @ \o methods]
        ELSE t[i]]

RECURSIVE BuildFrom(_, _, _)
BuildFrom(t, paths, k) ==
    IF k > Len(paths) THEN t
    ELSE LET segs == ParsePathSegments(paths[k].path)
         IN  BuildFrom(PushMethods(WalkSegments(t, segs, 1), segs,
                                   paths[k].methods),
                       paths, k + 1)

\* buildPathTree(paths)
BuildPathTree(paths) == BuildFrom(RootTree, paths, 1)

\* node.children, in the order of the Map
Children(t, segs) ==
    SelectSeq(t, LAMBDA c : /\ Len(c.segments) = Len(segs) + 1
                            /\ SubSeq(c.segments, 1, Len(segs)) = segs)

RECURSIVE PushMethodNodes(_, _, _, _)
\* the loop over child.methods of processNode
PushMethodNodes(methods, k, nodeId, acc) ==
    IF k > Len(methods) THEN acc
    ELSE PushMethodNodes(methods, k + 1, nodeId,
            [nodes |-> Append(acc.nodes,
                          MkNode(NanoId(acc.next), "method", <<>>,
                                 methods[k])),
             edges |-> Append(acc.edges,
                          MkEdge(NanoId(acc.next + 1), nodeId,
                                 NanoId(acc.next))),
             next  |-> acc.next + 2])

RECURSIVE ProcessNode(_, _, _, _), ProcessChildren(_, _, _, _, _)
\* processNode(node, parentId, ...): the PathNode is given by its segments
ProcessNode(t, segs, parentId, acc) ==
    ProcessChildren(t, Children(t, segs), 1, parentId, acc)

\* the loop over node.children of processNode
ProcessChildren(t, cs, k, parentId, acc) ==
    IF k > Len(cs) THEN acc
    ELSE LET nodeId == NanoId(acc.next)
             a1 == [nodes |-> Append(acc.nodes,
                                 MkNode(nodeId, "resource",
                                        cs[k].segments[Len(cs[k].segments)],
                                        Undefined)),
                    edges |-> Append(acc.edges,
                                 MkEdge(NanoId(acc.next + 1), parentId,
                                        nodeId)),
                    next  |-> acc.next + 2]
             a2 == PushMethodNodes(cs[k].methods, 1, nodeId, a1)
         IN  ProcessChildren(t, cs, k + 1, parentId,
                             ProcessNode(t, cs[k].segments, nodeId, a2))

\* importOpenAPI(spec): the nodes and edges of the result
ImportOpenAPI(spec) ==
    LET baseUrl == IF spec.server # <<>> THEN spec.server ELSE StrLocalhost
        acc == ProcessNode(BuildPathTree(spec.paths), <<>>, NanoId(0),
                  [nodes |-> <<MkNode(NanoId(0), "baseUrl", baseUrl,
                                      Undefined)>>,
                   edges |-> <<>>, next |-> 1])
    IN  [done |-> TRUE, nodes |-> acc.nodes, edges |-> acc.edges]

PathChars == {"/", "a"}

\* the path keys of a document: they start with a slash
PathKeys ==
    {p \in SeqsUpTo(PathChars, MaxPathLen) : p # <<>> /\ p[1] = "/"}

\* the operations a path item can list, in the order importOpenAPI reads
\* them
MethodLists == {<<>>, <<"GET">>, <<"POST">>, <<"GET", "POST">>}

\* documents: servers[0].url given or not, and paths with distinct keys
Docs ==
    [server : {<<>>, <<"h">>},
     paths  : {ps \in SeqsUpTo([path : PathKeys, methods : MethodLists],
                               MaxPaths) :
                  \A i, j \in 1..Len(ps) : ps[i].path = ps[j].path => i = j}]

InitImport ==
    /\ StoreIdle /\ CallIdle /\ TraceIdle /\ SendIdle
    /\ request = NullId /\ DiskIdle /\ FlightIdle /\ BootIdle /\ HeapIdle
    /\ openapi \in Docs
    /\ imported = NoImport

ImportStep ==
    /\ ~imported.done
    /\ imported' = ImportOpenAPI(openapi)
    /\ UNCHANGED <<storeVars, callVars, traceVars, sendVars, request,
                   saveTimeout, timers, diskVars, flightVars, bootVars,
                   heapVars, openapi>>

NextImport == ImportStep

SpecImport == InitImport /\ [][NextImport]_vars

\* the path the resolver finds for node n of the import goes from the
\* BaseUrl node through Resource nodes holding segs, in order, to n
ResolvesThrough(n, segs) ==
    LET p == ComputeActivePathNodes(n.id, imported.nodes, imported.edges)
    IN  /\ Len(p) = Len(segs) + 2
        /\ FindNode(imported.nodes, p[1]).type = "baseUrl"
        /\ p[Len(p)] = n.id
        /\ \A i \in 1..Len(segs) :
              /\ FindNode(imported.nodes, p[i + 1]).type = "resource"
              /\ FindNode(imported.nodes, p[i + 1]).value = segs[i]

\* C29: after an import there is one BaseUrl node; for every path of the
\* document and every method listed under it there is a Method node of that
\* method which the resolver traces back to the BaseUrl node through
\* exactly the Resource nodes that hold the non-empty segments of the path,
\* in order; and every edge joins two nodes of the import.
C29_EveryOperationImported ==
    imported.done =>
        /\ Cardinality({i \in 1..Len(imported.nodes) :
                           imported.nodes[i].type = "baseUrl"}) = 1
        /\ \A k \in 1..Len(openapi.paths) :
           \A j \in 1..Len(openapi.paths[k].methods) :
              \E i \in 1..Len(imported.nodes) :
                 /\ imported.nodes[i].type = "method"
                 /\ imported.nodes[i].method = openapi.paths[k].methods[j]
                 /\ ResolvesThrough(imported.nodes[i],
                                    ParsePathSegments(openapi.paths[k].path))
        /\ \A e \in 1..Len(imported.edges) :
              /\ imported.edges[e].source \in NodeIds(imported.nodes)
              /\ imported.edges[e].target \in NodeIds(imported.nodes)

(***************************************************************************)
(* The Send button of the active method block                              *)
(***************************************************************************)
\* the Send button of the method block of node id:
\* disabled={loading || !computedUrl}
SendEnabled(id) ==
    /\ id \notin loadingBlocks
    /\ ~BlockOf(id).computedUrl.isNull
    /\ BlockOf(id).computedUrl.value # <<>>

ClearableValues == {<<>>, <<"x">>}

\* a canvas with a BaseUrl node joined to a method node, directly or
\* through one resource node; nothing is selected
InitEnable ==
    /\ \E segs \in SeqsUpTo({<<"a">>}, 1) :
          /\ nodes = ChainNodes(<<"h">>, segs)
          /\ edges = ChainEdges(segs)
    /\ activePathId = NullId
    /\ activePathNodes = <<>> /\ variables = EmptyVariables
    /\ nextId = 0 /\ nOps = 0 /\ lastOp = "none"
    /\ CallIdle /\ TraceIdle /\ SendIdle /\ RestIdle

NextEnable ==
    \/ \E id \in MethodIds(nodes) \cup {NullId} : SetActivePath(id)
    \/ \E id \in ValueIds(nodes), v \in ClearableValues :
          UpdateNodeValue(id, v)
    \/ \E id \in NodeIds(nodes) : OnNodesChange([type |-> "remove", id |-> id])
    \/ \E id \in EdgeIds(edges) : OnEdgesChange([type |-> "remove", id |-> id])
    \/ \E s \in SourceIds(nodes), t \in TargetIds(nodes) : OnConnect(s, t)
    \/ \E id \in MethodIds(nodes) : BlockSend(id)
    \/ \E f \in inflight, o \in Outcomes : BlockSettle(f, o)

SpecEnable == InitEnable /\ [][NextEnable]_vars

\* C30 as stated: getComputedUrl returns a URL exactly when activePathNodes
\* is not empty, and the Send button of the active method block, no request
\* of it being under way, is enabled exactly when activePathNodes is not
\* empty.
C30_SendIffPath ==
    /\ GetComputedUrl(nodes, edges, activePathId, variables).isNull
          <=> (activePathNodes = <<>>)
    /\ \A id \in MethodIds(nodes) :
          (activePathId = id /\ id \notin loadingBlocks) =>
             (SendEnabled(id) <=> (activePathNodes # <<>>))

\* C30, amended: getComputedUrl returns a URL exactly when activePathNodes
\* is not empty, and the Send button of the active method block, no request
\* of it being under way, is enabled exactly when activePathNodes is not
\* empty and the URL is not the empty string.
C30_UrlIffPath ==
    /\ GetComputedUrl(nodes, edges, activePathId, variables).isNull
          <=> (activePathNodes = <<>>)
    /\ \A id \in MethodIds(nodes) :
          (activePathId = id /\ id \notin loadingBlocks) =>
             (SendEnabled(id) <=>
                 /\ activePathNodes # <<>>
                 /\ GetComputedUrl(nodes, edges, activePathId,
                                   variables).value # <<>>)

\* the active method block hangs on a BaseUrl node whose value was cleared:
\* a path is highlighted, the URL is the empty string
C30_Witness ==
    /\ activePathId = "cm"
    /\ Len(activePathNodes) = 2
    /\ GetComputedUrl(nodes, edges, activePathId, variables) = UrlOf(<<>>)
    /\ ~SendEnabled("cm")

====
